---- MODULE Spec2Model ----
(***************************************************************************)
(* A model of dmidecode's table decoding engine (src/dmidecode.c): the     *)
(* table walker dmi_table_decode, the string accessor dmi_string, the      *)
(* length guards and sink calls of dmi_decode, and main's entry point      *)
(* search.  Byte offsets are 0-based as in the C source; buf[k] of the C   *)
(* code is B(k) here.                                                      *)
(***************************************************************************)
EXTENDS Integers, Sequences, FiniteSets, TLC

VARIABLES
  \* ---- table walker (dmi_table_decode) ----
  buf,      \* the table bytes handed to dmi_table_decode (Len(buf) = len)
  num,      \* declared structure count (0: unknown)
  flags,    \* the walker's flags argument, a set of flag names
  opt,      \* the global options: [flags, type, handle, string]
  pc,       \* position of the walker: "pass1", "pass2", "post", "done"
  i,        \* the loop counter i
  data,     \* offset of the current record (data - buf)
  vendor,   \* what dmi_set_vendor received, or NoVendor
  out,      \* sink calls and diagnostics emitted so far, in order
  log,      \* one entry per pass-2 iteration that built a header
  \* ---- one call of dmi_string on the record in buf ----
  sArg,     \* the string index s
  ret,      \* the value returned, NULL before the call
  \* ---- one call of dmi_decode on the record in buf ----
  reads,    \* offsets of the bytes read: by dmi_decode through h->data, by
            \* the walker itself in buf
  verArg,   \* the ver argument (major * 256 + minor)
  \* ---- main's search for an entry point ----
  env,      \* the machine: what each source holds
  found,    \* main's found
  mainRet,  \* main's ret, the exit status
  fp,       \* main's fp while scanning memory (in 16-byte steps)
  tried,    \* the sources main consulted so far, in order
  probes,   \* the candidates handed to a decoder so far, in order
  tables,   \* number of calls of dmi_table
  \* ---- one entry point (the 0x20 bytes in buf) given to its decoder ----
  decoder,  \* "smbios3_decode", "smbios_decode" or "legacy_decode"
  wide,     \* sizeof(off_t) >= 8
  res,      \* NULL, or <<what the decoder did with buf>>
  prev,     \* NULL, or <<the bytes and the result of the decode before>>
  \* ---- one call of dmi_print_memory_size ----
  sizeCode, \* the u64 argument code: NULL, or its 8 bytes, least significant first
  shift     \* the shift argument

walkVars == <<buf, num, flags, opt, pc, i, data, vendor, out, log>>

strVars == <<sArg, ret>>

decVars == <<reads, verArg>>

mainVars == <<env, found, mainRet, fp, tried, probes, tables>>

epVars == <<decoder, wide, res, prev>>

sizeVars == <<sizeCode, shift>>

vars == <<walkVars, strVars, decVars, mainVars, epVars, sizeVars>>

(***************************************************************************)
(* Bounds of the model                                                     *)
(***************************************************************************)
MaxRecs == 2       \* chunks concatenated into a table
MaxCut == 1        \* bytes cut off the end of the table (short read)
MaxStrs == 2       \* strings in the string area of a record given to dmi_string
MaxStrLen == 2     \* bytes of one such string
MaxNonZero == 3    \* non-zero 10-bit groups of a size given to dmi_print_memory_size

(***************************************************************************)
(* Tables.  A table is a concatenation of chunks; a chunk is a record      *)
(* (well-formed or corrupt) or stray bytes.  The handle's low byte is the  *)
(* chunk's position in the table.                                          *)
(***************************************************************************)
Chunks ==
  { <<0, 4, 0, 0, 0, 0>>,                          \* type 0, no strings
    <<0, 6, 0, 0, 0, 0, 65, 0, 0>>,                \* zero pair inside the fixed area, one string
    <<1, 6, 0, 0, 1, 2, 65, 0, 66, 0, 0>>,         \* System Information, two strings
    <<1, 6, 0, 0, 0, 3, 65, 0, 0>>,                \* System Information, index 0 and index 3
    <<1, 5, 0, 0, 1, 65, 0, 0>>,                   \* System Information of declared length 5
    <<126, 4, 0, 0, 0, 0>>,                        \* inactive
    <<127, 4, 0, 0, 0, 0>>,                        \* end-of-table
    <<0, 3, 0, 0, 0, 0>>,                          \* declared length below 4
    <<0, 4, 0, 0, 65, 66>>,                        \* no terminator
    <<0, 9, 0, 0>> }                               \* header only, length reaching past it

\* chunk number p (1-based) carries handle p - 1
WithHandle(c, p) ==
  [c EXCEPT ![3] = p - 1]

RECURSIVE Build(_, _)
Build(cs, p) ==
  IF p > Len(cs) THEN <<>>
  ELSE WithHandle(cs[p], p) \o Build(cs, p + 1)

ChunkSeqs ==
  UNION { [1..n -> Chunks] : n \in 1..MaxRecs }

Tables ==
  { SubSeq(Build(cs, 1), 1, Len(Build(cs, 1)) - cut) :
      cs \in ChunkSeqs, cut \in 0..MaxCut }

(***************************************************************************)
(* Options (parse_command_line): --string sets FLAG_QUIET, and --string,   *)
(* --type and --handle are mutually exclusive.  opt.flags is a set of flag *)
(* names; "BIT1" is the flag of opt.flags whose value is (1 << 1), the     *)
(* value of the walker's FLAG_STOP_AT_EOT.                                 *)
(***************************************************************************)
\* a pointer is NULL or <<what it points to>>
NULL == <<>>
\* opt.handle = ~0U, no handle filter: all bits set, which no 16-bit handle equals
NoHandle == 0 - 1

Opts ==
  { o \in [ flags  : SUBSET {"FLAG_QUIET", "FLAG_DUMP", "BIT1"},
            type   : {NULL, <<{1, 127}>>},
            handle : {NoHandle, 1},
            string : {NULL, <<[type |-> 1, offset |-> 4]>>} ] :
      /\ ~(o.type # NULL /\ o.handle # NoHandle)
      /\ ~(o.type # NULL /\ o.string # NULL)
      /\ ~(o.handle # NoHandle /\ o.string # NULL)
      /\ (o.string # NULL => "FLAG_QUIET" \in o.flags) }

\* dmi_table's callers: smbios3_decode passes count 0 and adds
\* FLAG_STOP_AT_EOT; smbios_decode and legacy_decode pass the declared count
Callers ==
  { [num |-> 0, flags |-> {"FLAG_STOP_AT_EOT"}] } \cup
  { [num |-> n, flags |-> {}] : n \in 0..MaxRecs }

\* the dmi_string variables while the walker runs
StrIdle ==
  sArg = 0 /\ ret = NULL

\* the dmi_decode variables outside a call of dmi_decode
DecIdle ==
  reads = {} /\ verArg = 0

\* main's variables outside a run of main
MainIdle ==
  /\ env = NULL /\ found = 0 /\ mainRet = 0 /\ fp = 0
  /\ tried = <<>> /\ probes = <<>> /\ tables = 0

\* the entry point variables outside a call of an entry point decoder
EpIdle ==
  decoder = "" /\ wide = TRUE /\ res = NULL /\ prev = NULL

\* the dmi_print_memory_size variables outside a call of it
SizeIdle ==
  sizeCode = NULL /\ shift = 0

(***************************************************************************)
(* Helpers of the walker                                                   *)
(***************************************************************************)
len == Len(buf)
B(k) == buf[k + 1]
quiet == "FLAG_QUIET" \in opt.flags

to_dmi_header(o) ==
  [type |-> B(o), length |-> B(o + 1), handle |-> B(o + 2) + 256 * B(o + 3)]

\* while ((i < num || !num) && data + 4 <= buf + len)
LoopCond ==
  (i < num \/ num = 0) /\ data + 4 <= len

\* buf[k] as the scan for the next handle reads it.  A byte at or beyond len
\* is not the table's and reading it is undefined: the model takes 0 for it
\* and a loop iteration that reads one ends in "undefined" (BeyondTable)
Byte(k) == IF k < len THEN B(k) ELSE 0

\* the bound of the scan as it would be if it tested next alone
ScanGuardOneByte(n) ==
  n < len

\* (unsigned long)(next - buf + 1) < len
ScanGuard(n) ==
  n + 1 < len

\* the scan for the double zero, from position n
RECURSIVE ScanNext(_)
ScanNext(n) ==
  IF ScanGuard(n) /\ (Byte(n) # 0 \/ Byte(n + 1) # 0) THEN ScanNext(n + 1) ELSE n

\* the offsets that scan reads from position n to where it ends, e: each
\* test reads next[0] and, when next[0] is 0, next[1].  The tests before e
\* read n..e-1, and e too when the byte before e is 0; the test at e, when
\* the bound lets it run, found the double zero at e and e + 1
ScanReads(n) ==
  LET e == ScanNext(n)
  IN (n..(e - 1))
       \cup (IF e > n /\ Byte(e - 1) = 0 THEN {e} ELSE {})
       \cup (IF ScanGuard(e) THEN {e, e + 1} ELSE {})

\* a read at or beyond len
BeyondTable(rd) == \E k \in rd : k >= len

NextHandleFrom4(o, h) ==
  ScanNext(o + 4) + 2

\* the next handle if only one of the two zero bytes were stepped over
NextHandlePlus1(o, h) ==
  ScanNext(o + h.length) + 1

\* next = data + h.length; while (...) next++; next += 2;
NextHandle(o, h) ==
  ScanNext(o + h.length) + 2

\* !((unsigned long)(next - buf) > len)
StructureFits(next) ==
  next <= len

ShortEntryBelow3(h) ==
  h.length < 3

\* h.length < 4
ShortEntry(h) ==
  h.length < 4

\* if ((opt.flags & FLAG_QUIET) && h.type == 127) break;
QuietEot(h) ==
  quiet /\ h.type = 127

StopAtEotNever(h) ==
  FALSE

\* if (h.type == 127 && (flags & FLAG_STOP_AT_EOT)) break;
StopAtEot(h) ==
  h.type = 127 /\ "FLAG_STOP_AT_EOT" \in flags

is_printable(o, n) ==
  \A k \in 0..(n - 1) : ~(B(o + k) < 32 \/ B(o + k) >= 127)

\* h as it is without the fixup
dmi_fixup_type_34_skipped(o, h) ==
  h

\* the length dmi_fixup_type_34 leaves in h
dmi_fixup_type_34(o, h) ==
  IF h.type = 34 /\ h.length = 16 /\ is_printable(o + 11, 16 - 11)
  THEN [h EXCEPT !.length = 11] ELSE h

Display(h) ==
  /\ (opt.type = NULL \/ h.type \in opt.type[1])
  /\ (opt.handle = NoHandle \/ opt.handle = h.handle)
  /\ ~(quiet /\ h.type \in {126, 127})
  /\ opt.string = NULL

\* strlen: the offset of the first zero byte at or after bp
RECURSIVE ScanZero(_)
ScanZero(bp) ==
  IF B(bp) = 0 THEN bp ELSE ScanZero(bp + 1)

\* the C string at offset o of the bytes b
RECURSIVE CStr(_, _)
CStr(b, o) ==
  IF b[o + 1] = 0 THEN <<>> ELSE <<b[o + 1]>> \o CStr(b, o + 1)

\* the while loop of _dmi_string: skip strings while s > 1 and *bp
RECURSIVE StrSkip(_, _)
StrSkip(bp, s) ==
  IF s > 1 /\ B(bp) # 0
  THEN StrSkip(ScanZero(bp) + 1, s - 1)
  ELSE bp

\* _dmi_string(h, s, filter) for the record at offset o: NULL, or a pointer
\* to the offset of the string (the filter changes bytes, not the pointer)
_dmi_string(o, h, s) ==
  LET bp == StrSkip(o + h.length, s)
  IN IF B(bp) = 0 THEN NULL ELSE <<bp>>

\* ascii_filter on one byte
FilterByte(b) ==
  IF b < 32 \/ b >= 127 THEN 46 ELSE b

\* ascii_filter(bp, strlen(bp)) applied to the bytes of b
ascii_filter(b, bp) ==
  [k \in 1..Len(b) |->
     IF bp + 1 <= k /\ k <= ScanZero(bp) THEN FilterByte(b[k]) ELSE b[k]]

NotSpecified == "Not Specified"
bad_index == "<BAD INDEX>"

\* dmi_string without the test of s against 0
dmi_stringNoZeroCheck(o, h, s) ==
  LET bp == _dmi_string(o, h, s)
  IN IF bp = NULL
     THEN [ptr |-> bad_index, at |-> -1, buf |-> buf]
     ELSE [ptr |-> "bp", at |-> bp[1], buf |-> ascii_filter(buf, bp[1])]

\* dmi_string(h, s) for the record at offset o: the pointer returned (one of
\* the two static strings, or bp into the record at offset at) and the
\* table bytes the filter leaves
dmi_string(o, h, s) ==
  IF s = 0
  THEN [ptr |-> NotSpecified, at |-> -1, buf |-> buf]
  ELSE LET bp == _dmi_string(o, h, s)
       IN IF bp = NULL
          THEN [ptr |-> bad_index, at |-> -1, buf |-> buf]
          ELSE [ptr |-> "bp", at |-> bp[1], buf |-> ascii_filter(buf, bp[1])]

(***************************************************************************)
(* dmi_table_decode, first pass: one action per loop iteration             *)
(***************************************************************************)
\* the test for a record that names the vendor, as it would be without the
\* test of the type
HasVendorAnyType(h) ==
  h.length >= 6

\* if (h.type == 1 && h.length >= 6)
HasVendor(h) ==
  h.type = 1 /\ h.length >= 6

\* if (h.length < 4 || (h.type == 127
\*     && (opt.flags & (FLAG_QUIET | FLAG_STOP_AT_EOT)))) break;
\* the mask is applied to opt.flags, where (1 << 1) is the flag "BIT1"
StopPass1(h) ==
  \/ ShortEntry(h)
  \/ (h.type = 127 /\ opt.flags \cap {"FLAG_QUIET", "BIT1"} # {})

\* the offsets of buf one iteration of the first loop reads, on the record
\* at o: the header, the scan, and for the vendor the two index bytes and
\* the strings _dmi_string steps over
Pass1Reads(o) ==
  LET h == to_dmi_header(o)
      StringReads(s) == (o + h.length)..StrSkip(o + h.length, s)
  IN (o..(o + 3))
       \cup (IF StopPass1(h) THEN {}
             ELSE ScanReads(o + h.length)
                    \cup (IF StructureFits(NextHandle(o, h)) /\ HasVendor(h)
                          THEN {o + 4, o + 5} \cup StringReads(B(o + 4))
                                 \cup StringReads(B(o + 5))
                          ELSE {}))

Pass1Step ==
  /\ pc = "pass1"
  /\ LET h    == to_dmi_header(data)
         next == NextHandle(data, h)
         rd   == Pass1Reads(data)
         toPass2 == /\ pc' = "pass2"
                    /\ i' = 0
                    /\ data' = 0
     IN IF ~LoopCond
        THEN toPass2 /\ UNCHANGED <<vendor, reads>>
        ELSE IF BeyondTable(rd)
        THEN /\ pc' = "undefined"
             /\ reads' = reads \cup rd
             /\ UNCHANGED <<i, data, vendor>>
        ELSE /\ reads' = reads \cup rd
             /\ IF StopPass1(h)
                THEN toPass2 /\ UNCHANGED vendor
                ELSE IF ~StructureFits(next)
                THEN toPass2 /\ UNCHANGED vendor
                ELSE IF HasVendor(h)
                THEN /\ toPass2
                     /\ vendor' = <<[manufacturer |-> _dmi_string(data, h, B(data + 4)),
                                     product      |-> _dmi_string(data, h, B(data + 5)),
                                     at           |-> data]>>
                ELSE /\ i' = i + 1
                     /\ data' = next
                     /\ UNCHANGED <<pc, vendor>>
  /\ UNCHANGED <<buf, num, flags, opt, out, log, verArg, strVars, mainVars, epVars, sizeVars>>

(***************************************************************************)
(* dmi_table_decode, second pass.  Pass2Body is one iteration of the loop  *)
(* on the record at data: what it emits, where it leaves data, whether it  *)
(* leaves the loop.                                                        *)
(***************************************************************************)
Ev(name, h) == <<name, data, h.length>>

\* a truncated record decoded like a whole one
TruncatedDecoded(r, display, h) ==
  [r EXCEPT !.data = r.next,
            !.emit = @ \o (IF display THEN <<Ev("dmi_decode", h)>> ELSE <<>>)]

\* the record does not fit: the marker, the separator, data = next, break
Truncated(r, display, h) ==
  [r EXCEPT !.brk = "truncated",
            !.data = r.next,
            !.emit = @ \o (IF display /\ ~quiet
                           THEN <<Ev("<TRUNCATED>", h)>> ELSE <<>>)
                      \o <<Ev("pr_sep", h)>>]

Pass2Body ==
  LET h0      == to_dmi_header(data)
      display == Display(h0)
      next    == NextHandle(data, h0)
      h       == dmi_fixup_type_34(data, h0)
      base    == [at |-> data, type |-> h0.type, length |-> h0.length,
                  display |-> display, quiet |-> quiet, next |-> -1,
                  emit |-> <<>>, brk |-> "none", data |-> data, inc |-> 0]
  IN IF ShortEntry(h0)
     THEN [base EXCEPT !.brk = "short",
             !.emit = IF quiet THEN <<>> ELSE <<Ev("Invalid entry length", h0)>>]
     ELSE IF QuietEot(h0)
     THEN [base EXCEPT !.brk = "quiet_eot", !.inc = 1]
     ELSE LET e1 == IF display /\ (~quiet \/ "FLAG_DUMP" \in opt.flags)
                    THEN <<Ev("pr_handle", h0)>> ELSE <<>>
          IN IF ~StructureFits(next)
             THEN Truncated([base EXCEPT !.inc = 1, !.next = next, !.emit = e1],
                            display, h0)
             ELSE LET e2 == IF h # h0 /\ ~quiet /\ display
                            THEN <<Ev("fixup", h0)>> ELSE <<>>
                      e3 == IF display
                            THEN IF "FLAG_DUMP" \in opt.flags
                                 THEN <<Ev("dmi_dump", h), Ev("pr_sep", h)>>
                                 ELSE <<Ev("dmi_decode", h)>>
                            ELSE IF opt.string # NULL /\ opt.string[1].type = h.type
                                 THEN <<Ev("dmi_table_string", h)>>
                                 ELSE <<>>
                  IN [base EXCEPT !.inc = 1, !.next = next, !.data = next,
                        !.emit = e1 \o e2 \o e3,
                        !.brk = IF StopAtEot(h) THEN "eot" ELSE "none"]

\* the offsets of buf one iteration of the second loop itself reads, on the
\* record at o: the header, the scan, and the bytes is_printable looks at
\* for dmi_fixup_type_34 (up to the first that is not printable)
Pass2Reads(o) ==
  LET h == to_dmi_header(o)
      PrintableReads(p, n) ==
        { p + k : k \in { j \in 0..(n - 1) : is_printable(p, j) } }
  IN (o..(o + 3))
       \cup (IF ShortEntry(h) \/ QuietEot(h) THEN {}
             ELSE ScanReads(o + h.length)
                    \cup (IF StructureFits(NextHandle(o, h))
                             /\ h.type = 34 /\ h.length = 16
                          THEN PrintableReads(o + 11, 16 - 11) ELSE {}))

Pass2Step ==
  /\ pc = "pass2"
  /\ IF ~LoopCond
     THEN /\ pc' = "post"
          /\ UNCHANGED <<i, data, out, log, opt, reads>>
     ELSE LET r  == Pass2Body
              rd == Pass2Reads(data)
          IN IF BeyondTable(rd)
             THEN /\ pc' = "undefined"
                  /\ reads' = reads \cup rd
                  /\ UNCHANGED <<i, data, out, log, opt>>
             ELSE
             /\ i' = i + r.inc
             /\ data' = r.data
             /\ out' = out \o r.emit
             /\ log' = Append(log, r)
             /\ opt' = IF r.brk = "short"
                       THEN [opt EXCEPT !.flags = @ \cup {"FLAG_QUIET"}] ELSE opt
             /\ pc' = IF r.brk = "none" THEN "pass2" ELSE "post"
             /\ reads' = reads \cup rd
  /\ UNCHANGED <<buf, num, flags, vendor, verArg, strVars, mainVars, epVars, sizeVars>>

\* if (num && i != num)
WrongCount ==
  num # 0 /\ i # num

\* the length test as it would be without its second disjunct
WrongLengthOverrunOnly ==
  data > len

\* if ((unsigned long)(data - buf) > len
\*  || (num && (unsigned long)(data - buf) < len))
WrongLength ==
  data > len \/ (num # 0 /\ data < len)

\* the count and length diagnostics after the second loop
PostWalk ==
  /\ pc = "post"
  /\ pc' = "done"
  /\ out' = IF quiet THEN out
            ELSE out
                 \o (IF WrongCount
                     THEN <<<<"Wrong DMI structures count", i, num>>>> ELSE <<>>)
                 \o (IF WrongLength
                     THEN <<<<"Wrong DMI structures length", data, len>>>> ELSE <<>>)
  /\ UNCHANGED <<buf, num, flags, opt, i, data, vendor, log, strVars, decVars, mainVars, epVars, sizeVars>>

Init ==
  /\ buf \in Tables
  /\ \E c \in Callers : num = c.num /\ flags = c.flags
  /\ opt \in Opts
  /\ pc = "pass1"
  /\ i = 0
  /\ data = 0
  /\ vendor = NULL
  /\ out = <<>>
  /\ log = <<>>
  /\ StrIdle /\ DecIdle /\ MainIdle /\ EpIdle /\ SizeIdle

Next ==
  \/ Pass1Step
  \/ Pass2Step
  \/ PostWalk

Spec == Init /\ [][Next]_vars

(***************************************************************************)
(* Tables with Management Device records (type 34), for the walker's       *)
(* actions: records of declared length 0x10 whose bytes 0x0B..0x0F are     *)
(* printable or not, one of length 0x0B, and the records and stray bytes   *)
(* that can surround them.                                                 *)
(***************************************************************************)
Chunks34 ==
  { <<34, 16, 0, 0, 1, 0, 0, 0, 0, 0, 0, 65, 66, 67, 68, 69, 0, 0>>,  \* length 0x10, "ABCDE"
    <<34, 16, 0, 0, 1, 0, 0, 0, 0, 0, 0, 65, 66, 67, 68, 7, 0, 0>>,   \* length 0x10, a control byte at 0x0F
    <<34, 11, 0, 0, 1, 0, 0, 0, 0, 0, 0, 65, 0, 0>>,                  \* length 0x0B, one string
    <<1, 6, 0, 0, 1, 2, 65, 0, 66, 0, 0>>,         \* System Information, two strings
    <<0, 4, 0, 0, 0, 0>>,                          \* type 0, no strings
    <<0, 4, 0, 0, 65, 66>>,                        \* no terminator
    <<0, 9, 0, 0>> }                               \* header only, length reaching past it

Tables34 ==
  { SubSeq(Build(cs, 1), 1, Len(Build(cs, 1)) - cut) :
      cs \in UNION { [1..n -> Chunks34] : n \in 1..MaxRecs }, cut \in 0..MaxCut }

Init34 ==
  /\ buf \in Tables34
  /\ \E c \in Callers : num = c.num /\ flags = c.flags
  /\ opt \in Opts
  /\ pc = "pass1"
  /\ i = 0
  /\ data = 0
  /\ vendor = NULL
  /\ out = <<>>
  /\ log = <<>>
  /\ StrIdle /\ DecIdle /\ MainIdle /\ EpIdle /\ SizeIdle

Spec34 == Init34 /\ [][Next]_vars

(***************************************************************************)
(* One call of dmi_string.  The record is a header of length 4 or 5        *)
(* followed by a string area: up to MaxStrs non-empty strings, each        *)
(* NUL-terminated, and the terminating empty string.                       *)
(***************************************************************************)
StrBytes == {65, 7, 200}

Strings ==
  UNION { [1..n -> StrBytes] : n \in 1..MaxStrLen }

\* the lists of n strings
StringLists(n) == [1..n -> Strings]

RECURSIVE StringArea(_)
StringArea(strs) ==
  IF strs = <<>> THEN <<0>>
  ELSE Head(strs) \o <<0>> \o StringArea(Tail(strs))

\* an empty string area is the double zero
Area(strs) ==
  IF strs = <<>> THEN <<0, 0>> ELSE StringArea(strs)

\* the headers of the records given to dmi_string
StrHeaders == { <<0, 4, 0, 0>>, <<0, 5, 0, 0, 1>> }

StrInit ==
  /\ \E n \in 0..MaxStrs : \E strs \in StringLists(n), hdr \in StrHeaders :
       buf = hdr \o Area(strs)
  /\ sArg \in 0..(MaxStrs + 2)
  /\ ret = NULL
  /\ pc = "dmi_string"
  /\ num = 0 /\ flags = {} /\ i = 0 /\ data = 0
  /\ opt = [flags |-> {}, type |-> NULL, handle |-> NoHandle, string |-> NULL]
  /\ vendor = NULL /\ out = <<>> /\ log = <<>>
  /\ DecIdle /\ MainIdle /\ EpIdle /\ SizeIdle

DmiStringCall ==
  /\ pc = "dmi_string"
  /\ LET r == dmi_string(data, to_dmi_header(data), sArg)
     IN /\ ret' = <<[ptr |-> r.ptr, at |-> r.at, before |-> buf]>>
        /\ buf' = r.buf
  /\ pc' = "returned"
  /\ UNCHANGED <<num, flags, opt, i, data, vendor, out, log, sArg, decVars, mainVars, epVars, sizeVars>>

StrNext ==
  DmiStringCall

SpecStr == StrInit /\ [][StrNext]_vars

(***************************************************************************)
(* One call of dmi_print_memory_size(attr, code, shift).  code is a u64,   *)
(* the struct of two u32 l and h, kept as its 8 bytes; every intermediate  *)
(* value is below 2^31.                                                    *)
(***************************************************************************)
Pow2(n) == 2 ^ n

\* bit j of the byte sequence w
BitOf(w, j) == (w[(j \div 8) + 1] \div Pow2(j % 8)) % 2

\* code.l and code.h, 4 bytes each
Lo(c) == SubSeq(c, 1, 4)
Hi(c) == SubSeq(c, 5, 8)

\* w >> s for a u32 w and 1 <= s <= 31
Shr(w, s) ==
  IF s <= 24
  THEN (w[1] + 256 * w[2] + 65536 * w[3]) \div Pow2(s) + w[4] * Pow2(24 - s)
  ELSE w[4] \div Pow2(s - 24)

\* w & 0x3FFUL for a u32 w given by its bytes
Low10(w) == (w[1] + 256 * w[2]) % 1024

\* split[3] as it would be without the two bits of code.l
Split3HighOnly(c) ==
  (Hi(c)[1] * 4) % 1024

\* split[3] = ((code.h << 2) & 0x3FCUL) | (code.l >> 30)
Split3(c) ==
  ((Hi(c)[1] * 4) % 1024) + Shr(Lo(c), 30)

\* split[0..6], as a sequence indexed from 1
split(c) ==
  << Low10(Lo(c)),
     Shr(Lo(c), 10) % 1024,
     Shr(Lo(c), 20) % 1024,
     Split3(c),
     Shr(Hi(c), 8) % 1024,
     Shr(Hi(c), 18) % 1024,
     Shr(Hi(c), 28) >>

unit == <<"bytes", "kB", "MB", "GB", "TB", "PB", "EB", "ZB">>

\* for (i = 6; i > 0; i--) if (split[i]) break;
RECURSIVE Highest(_, _)
Highest(sp, k) ==
  IF k > 0 /\ sp[k + 1] = 0 THEN Highest(sp, k - 1) ELSE k

\* the pr_attr call of dmi_print_memory_size
dmi_print_memory_size(c, sh) ==
  LET sp == split(c)
      k == Highest(sp, 6)
  IN IF k > 0 /\ sp[k] # 0
     THEN <<"pr_attr", "%lu %s", sp[k] + sp[k + 1] * 1024, unit[(k - 1) + sh + 1]>>
     ELSE <<"pr_attr", "%lu %s", sp[k + 1], unit[k + sh + 1]>>

\* the values of a 10-bit group (the seventh group has 4 bits)
GroupVals(k) == IF k = 7 THEN {0, 1, 15} ELSE {0, 1, 4, 1023}

\* the u64 whose 10-bit groups are g, as its 8 bytes
Pack(g) ==
  [b \in 1..8 |->
     LET bit(j) == (g[(j \div 10) + 1] \div Pow2(j % 10)) % 2
         RECURSIVE sum(_)
         sum(n) == IF n = 0 THEN 0 ELSE sum(n - 1) + bit(8 * (b - 1) + n - 1) * Pow2(n - 1)
     IN sum(8)]

\* the sizes with at most MaxNonZero non-zero groups
Sizes(n) ==
  { Pack(g) : g \in { f \in [1..7 -> {0, 1, 4, 15, 1023}] :
                        /\ \A k \in 1..7 : f[k] \in GroupVals(k)
                        /\ Cardinality({k \in 1..7 : f[k] # 0}) <= n } }

SizeInit ==
  /\ sizeCode \in { <<c>> : c \in Sizes(MaxNonZero) }
  /\ shift \in {0, 1}
  /\ pc = "print_size"
  /\ out = <<>>
  /\ buf = <<>> /\ num = 0 /\ flags = {} /\ i = 0 /\ data = 0
  /\ opt = [flags |-> {}, type |-> NULL, handle |-> NoHandle, string |-> NULL]
  /\ vendor = NULL /\ log = <<>>
  /\ StrIdle /\ DecIdle /\ MainIdle /\ EpIdle

PrintMemorySize ==
  /\ pc = "print_size"
  /\ out' = <<dmi_print_memory_size(sizeCode[1], shift)>>
  /\ pc' = "printed"
  /\ UNCHANGED <<buf, num, flags, opt, i, data, vendor, log, strVars, decVars,
                 mainVars, epVars, sizeVars>>

SizeNext ==
  PrintMemorySize

SpecSize == SizeInit /\ [][SizeNext]_vars

(***************************************************************************)
(* One call of dmi_decode.  buf holds the record (header and formatted     *)
(* area) and the bytes that follow it in the table; reads collects the     *)
(* offsets of the bytes dmi_decode and its helpers read through h->data    *)
(* (the bytes dmi_string reads in the string area are not collected), out  *)
(* the sink calls, each <<function, name or format>>.  The structure       *)
(* types modelled are BIOS Information (0), Base Board Information (2),    *)
(* Chassis Information (3), Physical Memory Array (16) and Memory Channel  *)
(* (37).  A pr_attr call whose value a property needs carries the value.   *)
(***************************************************************************)
MaxDecLen == 27    \* largest declared length of a record given to dmi_decode
MaxCount == 2      \* largest count byte of a trailing array

DecTypes == {0, 2, 3, 16, 37}

\* the bytes of a record that are not 0, by type: offset :> value
DecVary(t) ==
  CASE t = 0 ->
         { (\h0A :> a) @@ (\h0B :> a1) @@ (\h12 :> b) @@ (\h13 :> c) :
             a \in {0, 8, 16, 24}, a1 \in {0, 8}, b \in {0, 1, 3}, c \in {0, 1} }
    [] t = 2 ->
         { (\h09 :> f) @@ (\h0E :> c) : f \in {0, 1}, c \in 0..MaxCount }
    [] t = 3 ->
         { (\h13 :> c) @@ (\h14 :> s) : c \in 0..MaxCount, s \in {0, 3} }
    [] t = 16 ->
         { (\h07 :> a) @@ (\h0A :> b) @@ (\h10 :> e) @@ (\h14 :> f) :
             a \in {0, 1}, b \in {0, 128}, e \in {0, 16}, f \in {0, 1} }
    [] t = 37 ->
         { (\h06 :> c) : c \in 0..MaxCount }

\* a record of type t and declared length L in memory, followed by the
\* bytes after it
DecRecord(t, L, v) ==
  [k \in 1..(MaxDecLen + 3 * (MaxCount + 1)) |->
     IF k = 1 THEN t
     ELSE IF k = 2 THEN L
     ELSE IF (k - 1) \in DOMAIN v THEN v[k - 1]
     ELSE 0]

DecRecords ==
  UNION { { DecRecord(t, L, v) : L \in 4..MaxDecLen, v \in DecVary(t) } :
            t \in DecTypes }

\* the offsets of the bytes read by WORD(data + k), DWORD(..), QWORD(..)
WORD(k) == {k, k + 1}
DWORD(k) == k..(k + 3)
QWORD(k) == k..(k + 7)

\* code & (1 << n)
Bit(code, n) == (code \div (2 ^ n)) % 2 = 1
\* the bits set in the little-endian value of n bytes at offset o
BitsAt(o, n) ==
  { b \in 0..(8 * n - 1) : Bit(B(o + (b \div 8)), b % 8) }

pr_handle_name(name) == <<"pr_handle_name", name>>
pr_attr(name) == <<"pr_attr", name>>
pr_list_start(name) == <<"pr_list_start", name>>
pr_list_item(format) == <<"pr_list_item", format>>
pr_list_end == <<"pr_list_end", "">>
pr_subattr(name, value) == <<"pr_subattr", name, value>>
printf(format, args) == <<"printf", format, args>>

out_of_spec == "<OUT OF SPEC>"

\* for (i = lo; i <= hi; i++) if (code & (1 << i)) pr_list_item("%s", table[i - off]);
BitItems(bits, lo, hi, table, off) ==
  LET idx == SelectSeq([k \in 1..(hi - lo + 1) |-> lo + k - 1],
                       LAMBDA n : n \in bits)
  IN [k \in 1..Len(idx) |-> pr_list_item(table[idx[k] - off + 1])]

\* what a run of statements did: the offsets read and the sink calls made
Nop == [reads |-> {}, calls |-> <<>>]
Then(a, b) ==
  [reads |-> a.reads \cup b.reads, calls |-> a.calls \o b.calls]

\* "if (h->length < min) break;" and the statements up to the next guard
Stage(min, rd, calls) ==
  [min |-> min, reads |-> rd, calls |-> calls]

\* the stages run in order until a guard breaks out of the switch
RECURSIVE RunStages(_, _, _)
RunStages(L, st, k) ==
  IF k > Len(st) \/ L < st[k].min THEN Nop
  ELSE Then(st[k], RunStages(L, st, k + 1))

\* dmi_bios_characteristics: characteristics[0] is bit 3, characteristics[i - 3] bit i
characteristics ==
  <<
     "BIOS characteristics not supported",
     "ISA is supported",
     "MCA is supported",
     "EISA is supported",
     "PCI is supported",
     "PC Card (PCMCIA) is supported",
     "PNP is supported",
     "APM is supported",
     "BIOS is upgradeable",
     "BIOS shadowing is allowed",
     "VLB is supported",
     "ESCD support is available",
     "Boot from CD is supported",
     "Selectable boot is supported",
     "BIOS ROM is socketed",
     "Boot from PC Card (PCMCIA) is supported",
     "EDD is supported",
     "Japanese floppy for NEC 9800 1.2 MB is supported (int 13h)",
     "Japanese floppy for Toshiba 1.2 MB is supported (int 13h)",
     "5.25\"/360 kB floppy services are supported (int 13h)",
     "5.25\"/1.2 MB floppy services are supported (int 13h)",
     "3.5\"/720 kB floppy services are supported (int 13h)",
     "3.5\"/2.88 MB floppy services are supported (int 13h)",
     "Print screen service is supported (int 5h)",
     "8042 keyboard services are supported (int 9h)",
     "Serial services are supported (int 14h)",
     "Printer services are supported (int 17h)",
     "CGA/mono video services are supported (int 10h)",
     "NEC PC-98" >>

characteristics_x1 ==
  <<
     "ACPI is supported",
     "USB legacy is supported",
     "AGP is supported",
     "I2O boot is supported",
     "LS-120 boot is supported",
     "ATAPI Zip drive boot is supported",
     "IEEE 1394 boot is supported",
     "Smart battery is supported" >>

characteristics_x2 ==
  <<
     "BIOS boot specification is supported",
     "Function key-initiated network boot is supported",
     "Targeted content distribution is supported",
     "UEFI is supported",
     "System is a virtual machine" >>

features ==
  <<
     "Board is a hosting board",
     "Board requires at least one daughter board",
     "Board is removable",
     "Board is replaceable",
     "Board is hot swappable" >>

\* dmi_bios_characteristics as it would be without the return after bit 3
dmi_bios_characteristicsNoReturn(bits) ==
  (IF 3 \in bits THEN <<pr_list_item(characteristics[1])>> ELSE <<>>)
    \o BitItems(bits, 4, 31, characteristics, 3)

\* dmi_bios_characteristics(QWORD(data + 0x0A)): only code.l is tested
dmi_bios_characteristics(bits) ==
  IF 3 \in bits THEN <<pr_list_item(characteristics[1])>>
  ELSE BitItems(bits, 4, 31, characteristics, 3)

dmi_bios_characteristics_x1(bits) ==
  BitItems(bits, 0, 7, characteristics_x1, 0)

dmi_bios_characteristics_x2(bits) ==
  BitItems(bits, 0, 4, characteristics_x2, 0)

\* case 0: BIOS Information
dmi_decode_0(h) ==
  RunStages(h.length,
    << Stage(0, {}, <<pr_handle_name("BIOS Information")>>),
       Stage(\h12,
             {\h04, \h05, \h08} \cup WORD(\h06) \cup {\h09}
               \cup (IF h.length < \h1A THEN {} ELSE WORD(\h18))
               \cup QWORD(\h0A),
             <<pr_attr("Vendor"), pr_attr("Version"), pr_attr("Release Date")>>
               \o (IF BitsAt(\h06, 2) # {}
                   THEN <<pr_attr("Address"), pr_attr("Runtime Size")>>
                   ELSE <<>>)
               \o <<pr_attr("ROM Size"), pr_list_start("Characteristics")>>
               \o dmi_bios_characteristics(BitsAt(\h0A, 4))
               \o <<pr_list_end>>),
       Stage(\h13, {\h12}, dmi_bios_characteristics_x1(BitsAt(\h12, 1))),
       Stage(\h14, {\h13}, dmi_bios_characteristics_x2(BitsAt(\h13, 1))),
       Stage(\h18,
             {\h14} \cup (IF B(\h14) # 255 THEN {\h15} ELSE {})
               \cup {\h16} \cup (IF B(\h16) # 255 THEN {\h17} ELSE {}),
             (IF B(\h14) # 255 /\ B(\h15) # 255
              THEN <<pr_attr("BIOS Revision")>> ELSE <<>>)
               \o (IF B(\h16) # 255 /\ B(\h17) # 255
                   THEN <<pr_attr("Firmware Revision")>> ELSE <<>>)) >>,
    1)

dmi_base_board_features(code) ==
  IF code % 32 = 0 THEN <<pr_list_start("Features"), pr_list_end>>
  ELSE <<pr_list_start("Features")>>
         \o BitItems({n \in 0..7 : Bit(code, n)}, 0, 4, features, 0)
         \o <<pr_list_end>>

\* dmi_base_board_handles(count, data + p)
dmi_base_board_handles(count, p) ==
  [reads |-> UNION { WORD(p + 2 * n) : n \in 0..(count - 1) },
   calls |-> <<pr_list_start("Contained Object Handles")>>
               \o [n \in 1..count |-> pr_list_item("0x%04X")]
               \o <<pr_list_end>>]

\* case 2: Base Board Information
dmi_decode_2(h) ==
  RunStages(h.length,
    << Stage(0, {}, <<pr_handle_name("Base Board Information")>>),
       Stage(\h08, \h04..\h07,
             <<pr_attr("Manufacturer"), pr_attr("Product Name"),
               pr_attr("Version"), pr_attr("Serial Number")>>),
       Stage(\h09, {\h08}, <<pr_attr("Asset Tag")>>),
       Stage(\h0A, {\h09}, dmi_base_board_features(B(\h09))),
       Stage(\h0E,
             {\h0A, \h0D} \cup (IF quiet THEN {} ELSE WORD(\h0B)),
             <<pr_attr("Location In Chassis")>>
               \o (IF quiet THEN <<>> ELSE <<pr_attr("Chassis Handle")>>)
               \o <<pr_attr("Type")>>),
       Stage(\h0F, {\h0E}, <<>>),
       Stage(\h0F + B(\h0E) * 2,
             IF quiet THEN {} ELSE dmi_base_board_handles(B(\h0E), \h0F).reads,
             IF quiet THEN <<>> ELSE dmi_base_board_handles(B(\h0E), \h0F).calls) >>,
    1)

\* dmi_chassis_elements(count, len, data + p)
dmi_chassis_elements(count, elen, p) ==
  [reads |-> IF elen >= 3
             THEN UNION { (p + n * elen)..(p + n * elen + 2) : n \in 0..(count - 1) }
             ELSE {},
   calls |-> <<pr_list_start("Contained Elements")>>
               \o [n \in 1..(IF elen >= 3 THEN count ELSE 0) |->
                     IF B(p + 1 + (n - 1) * elen) = B(p + 2 + (n - 1) * elen)
                     THEN pr_list_item("%s (%u)")
                     ELSE pr_list_item("%s (%u-%u)")]
               \o <<pr_list_end>>]

\* case 3: Chassis Information
dmi_decode_3(h) ==
  RunStages(h.length,
    << Stage(0, {}, <<pr_handle_name("Chassis Information")>>),
       Stage(\h09, \h04..\h08,
             <<pr_attr("Manufacturer"), pr_attr("Type"), pr_attr("Lock"),
               pr_attr("Version"), pr_attr("Serial Number"),
               pr_attr("Asset Tag")>>),
       Stage(\h0D, \h09..\h0C,
             <<pr_attr("Boot-up State"), pr_attr("Power Supply State"),
               pr_attr("Thermal State"), pr_attr("Security Status")>>),
       Stage(\h11, DWORD(\h0D), <<pr_attr("OEM Information")>>),
       Stage(\h13, {\h11, \h12},
             <<pr_attr("Height"), pr_attr("Number Of Power Cords")>>),
       Stage(\h15, {\h13, \h14}, <<>>),
       Stage(\h15 + B(\h13) * B(\h14),
             dmi_chassis_elements(B(\h13), B(\h14), \h15).reads \cup {\h13, \h14},
             dmi_chassis_elements(B(\h13), B(\h14), \h15).calls),
       Stage(\h16 + B(\h13) * B(\h14),
             {\h15 + B(\h13) * B(\h14)},
             <<pr_attr("SKU Number")>>) >>,
    1)

\* pr_attr(name, format, ...) with the text it prints
pr_attr_value(name, value) == <<"pr_attr", name, value>>

\* dmi_print_memory_size(attr, code, shift), code the 8 bytes c
pr_attr_size(attr, c, sh) ==
  pr_attr_value(attr, <<dmi_print_memory_size(c, sh)[3], dmi_print_memory_size(c, sh)[4]>>)

\* the test for a record without the extended capacity, as it would be if
\* the field were always taken to be there
NoExtendedCapacityNever(h) ==
  FALSE

\* if (h->length < 0x17)
NoExtendedCapacity(h) ==
  h.length < \h17

\* case 16: Physical Memory Array
dmi_decode_16(h) ==
  LET sentinel == <<B(\h07), B(\h08), B(\h09), B(\h0A)>> = <<0, 0, 0, 128>>
      extended == sentinel /\ ~NoExtendedCapacity(h)
  IN RunStages(h.length,
       << Stage(0, {}, <<pr_handle_name("Physical Memory Array")>>),
          Stage(\h0F,
                {\h04, \h05, \h06} \cup DWORD(\h07)
                  \cup (IF extended THEN QWORD(\h0F) ELSE {})
                  \cup (IF quiet THEN {} ELSE WORD(\h0B))
                  \cup WORD(\h0D),
                <<pr_attr("Location"), pr_attr("Use"),
                  pr_attr("Error Correction Type")>>
                  \o << IF sentinel
                        THEN IF NoExtendedCapacity(h)
                             THEN pr_attr_value("Maximum Capacity", "Unknown")
                             ELSE pr_attr_size("Maximum Capacity",
                                    [k \in 1..8 |-> B(\h0F + k - 1)], 0)
                        ELSE pr_attr_size("Maximum Capacity",
                               <<B(\h07), B(\h08), B(\h09), B(\h0A), 0, 0, 0, 0>>, 1) >>
                  \o (IF quiet THEN <<>> ELSE <<pr_attr("Error Information Handle")>>)
                  \o <<pr_attr("Number Of Devices")>>) >>,
       1)

\* dmi_memory_channel_devices(count, data + p): for (i = 1; i <= count; i++)
\* reads p[3 * i] and, unless quiet, WORD(p + 3 * i + 1)
dmi_memory_channel_devices(count, p) ==
  [reads |-> UNION { IF quiet THEN {p + 3 * n}
                     ELSE {p + 3 * n} \cup WORD(p + 3 * n + 1) : n \in 1..count },
   calls |-> [k \in 1..(IF quiet THEN count ELSE 2 * count) |->
                IF quiet \/ k % 2 = 1
                THEN pr_attr("Device %hhu Load")
                ELSE pr_attr("Device %hhu Handle")]]

\* case 37: Memory Channel
dmi_decode_37(h) ==
  RunStages(h.length,
    << Stage(0, {}, <<pr_handle_name("Memory Channel")>>),
       Stage(\h07, {\h04, \h05, \h06},
             <<pr_attr("Type"), pr_attr("Maximal Load"), pr_attr("Devices")>>),
       Stage(\h07 + 3 * B(\h06),
             dmi_memory_channel_devices(B(\h06), \h07).reads,
             dmi_memory_channel_devices(B(\h06), \h07).calls) >>,
    1)

\* dmi_address_decode(data + p, storage, addrtype): the bytes inet_ntop reads
AddressBytes(p, addrtype) ==
  CASE addrtype = 1 -> p..(p + 3)
    [] addrtype = 2 -> p..(p + 15)
    [] OTHER -> {}

\* dmi_parse_protocol_record(rec), rec the offset of the protocol record
dmi_parse_protocol_record(rec) ==
  LET rid    == B(rec)
      rlen   == B(rec + 1)
      rdata  == rec + 2
      hlen   == B(rdata + 90)
      static(a) == a = 1 \/ a = 3
      head   == [reads |-> {rec, rec + 1},
                 calls |-> <<pr_attr_value("Protocol ID", rid)>>]
  IN IF rid # 4 \/ rlen < 91 THEN head
     ELSE Then(head,
       [reads |-> (rdata..(rdata + 17))
                    \cup (IF static(B(rdata + 16))
                          THEN AddressBytes(rdata + 18, B(rdata + 17))
                                 \cup AddressBytes(rdata + 34, B(rdata + 17))
                          ELSE {})
                    \cup {rdata + 50, rdata + 51}
                    \cup (IF static(B(rdata + 50))
                          THEN AddressBytes(rdata + 52, B(rdata + 51))
                                 \cup AddressBytes(rdata + 68, B(rdata + 51))
                                 \cup WORD(rdata + 84) \cup DWORD(rdata + 86)
                          ELSE {})
                    \cup {rdata + 90}
                    \cup (IF hlen + 91 > rlen THEN {}
                          ELSE (rdata + 91)..(rdata + 90 + hlen)),
        calls |-> <<pr_subattr("Service UUID", ""),
                    pr_subattr("Host IP Assignment Type", B(rdata + 16)),
                    pr_subattr("Host IP Address Format", B(rdata + 17))>>
                  \o (IF static(B(rdata + 16))
                      THEN <<pr_subattr("%s Address", ""), pr_subattr("%s Mask", "")>>
                      ELSE <<>>)
                  \o <<pr_subattr("Redfish Service IP Discovery Type", B(rdata + 50)),
                       pr_subattr("Redfish Service IP Address Format", B(rdata + 51))>>
                  \o (IF static(B(rdata + 50))
                      THEN <<pr_subattr("%s Redfish Service Address", ""),
                             pr_subattr("%s Redfish Service Mask", ""),
                             pr_subattr("Redfish Service Port", ""),
                             pr_subattr("Redfish Service Vlan", "")>>
                      ELSE <<>>)
                  \* "%.*s", hlen, hname: hname and the bytes printed
                  \o <<pr_subattr("Redfish Service Hostname",
                         IF hlen + 91 > rlen THEN <<out_of_spec>>
                         ELSE <<"&rdata[91]">> \o [k \in 1..hlen |-> B(rdata + 90 + k)])>>])

\* the test of a protocol record against the structure, as it would be
\* without the two leading bytes of the record
RecordOverrunsNoHeader(h, total, rec) ==
  total + B(rec + 1) > h.length

\* total_read += rec[1] + 2; if (total_read > h->length)
RecordOverruns(h, total, rec) ==
  total + B(rec + 1) + 2 > h.length

\* for (i = 0; i < count; i++): the n records left from offset rec, total
\* the value of total_read
RECURSIVE ProtocolRecords(_, _, _, _)
ProtocolRecords(h, rec, n, total) ==
  IF n = 0 THEN Nop
  ELSE IF RecordOverruns(h, total, rec)
  THEN [reads |-> {rec + 1},
        calls |-> <<printf("Total read length %d exceeds total structure length %d (handle 0x%04hx, record %d)\n",
                           <<total + B(rec + 1) + 2, h.length>>)>>]
  ELSE Then(dmi_parse_protocol_record(rec),
            ProtocolRecords(h, rec + B(rec + 1) + 2, n - 1, total + B(rec + 1) + 2))

\* dmi_parse_controller_structure(h)
dmi_parse_controller_structure(h) ==
  LET length == B(\h05)
      device == B(\h06)
      total  == length + 6
  IN IF h.length < \h0B THEN Nop
     ELSE IF total > h.length THEN [Nop EXCEPT !.reads = {\h05}]
     ELSE IF B(\h04) # \h40
     THEN [reads |-> {\h04, \h05}, calls |-> <<pr_attr("Host Interface Type")>>]
     ELSE Then(
       [reads |-> {\h04, \h05}
                    \cup (IF length # 0 THEN {\h06} ELSE {})
                    \cup (CASE length # 0 /\ device = 2 /\ length >= 5 -> \h07..\h0A
                            [] length # 0 /\ device = 3 /\ length >= 9 -> \h07..\h0E
                            [] length # 0 /\ device = 4 /\ length >= 5 -> \h07..\h0A
                            [] OTHER -> {}),
        calls |-> <<pr_attr("Host Interface Type")>>
                  \o (IF length # 0 THEN <<pr_attr("Device Type")>> ELSE <<>>)
                  \o (CASE length # 0 /\ device = 2 /\ length >= 5 ->
                             <<pr_attr("idVendor"), pr_attr("idProduct")>>
                        [] length # 0 /\ device = 3 /\ length >= 9 ->
                             <<pr_attr("VendorID"), pr_attr("DeviceID"),
                               pr_attr("SubVendorID"), pr_attr("SubDeviceID")>>
                        [] length # 0 /\ device = 4 /\ length >= 5 ->
                             <<pr_attr("Vendor ID")>>
                        [] OTHER -> <<>>)],
       IF total + 1 > h.length
       THEN [reads |-> {},
             calls |-> <<printf("Total read length %d exceeds total structure length %d (handle 0x%04hx)\n",
                                <<total + 1, h.length>>)>>]
       ELSE Then([reads |-> {total}, calls |-> <<>>],
                 ProtocolRecords(h, total + 1, B(total), total + 1)))

\* case 42: Management Controller Host Interface
dmi_decode_42(h) ==
  Then([reads |-> {}, calls |-> <<pr_handle_name("Management Controller Host Interface")>>],
       IF verArg < \h0302
       THEN RunStages(h.length,
              << Stage(\h05, {\h04}, <<pr_attr("Interface Type")>>),
                 Stage(\h09,
                       IF B(\h04) = \hF0 THEN \h05..\h08 ELSE {},
                       IF B(\h04) = \hF0 THEN <<pr_attr("Vendor ID")>> ELSE <<>>) >>,
              1)
       ELSE dmi_parse_controller_structure(h))

\* dmi_decode(h, ver), for the types modelled; data = h->data is offset 0
\* and ver is verArg
dmi_decode(h) ==
  CASE h.type = 0 -> dmi_decode_0(h)
    [] h.type = 2 -> dmi_decode_2(h)
    [] h.type = 3 -> dmi_decode_3(h)
    [] h.type = 16 -> dmi_decode_16(h)
    [] h.type = 37 -> dmi_decode_37(h)
    [] h.type = 42 -> dmi_decode_42(h)

DecInit ==
  /\ buf \in DecRecords
  /\ opt \in { [flags |-> f, type |-> NULL, handle |-> NoHandle, string |-> NULL] :
                 f \in {{}, {"FLAG_QUIET"}} }
  /\ pc = "dmi_decode"
  /\ reads = {}
  /\ verArg = 0
  /\ out = <<>>
  /\ num = 0 /\ flags = {} /\ i = 0 /\ data = 0
  /\ vendor = NULL /\ log = <<>>
  /\ StrIdle /\ MainIdle /\ EpIdle /\ SizeIdle

DmiDecodeCall ==
  /\ pc = "dmi_decode"
  /\ LET r == dmi_decode(to_dmi_header(0))
     IN /\ reads' = r.reads
        /\ out' = r.calls
  /\ pc' = "decoded"
  /\ UNCHANGED <<buf, num, flags, opt, i, data, vendor, log, verArg, strVars, mainVars, epVars, sizeVars>>

DecNext ==
  DmiDecodeCall

SpecDecode == DecInit /\ [][DecNext]_vars

(***************************************************************************)
(* dmi_decode on a Management Controller Host Interface record (type 42):  *)
(* a network host interface with its device data, the protocol record      *)
(* count and the protocol records, under a declared length that covers all *)
(* of them or stops short.                                                 *)
(***************************************************************************)
\* a Redfish over IP protocol record of length rlen: assignment type a (for
\* host and service), address format IPv4, host name length hlen
Redfish(rlen, hlen, a) ==
  <<4, rlen>> \o
  [k \in 1..rlen |->
     CASE k - 1 \in {16, 50} -> a
       [] k - 1 \in {17, 51} -> 1
       [] k - 1 = 90 -> hlen
       [] k - 1 > 90 -> 104
       [] OTHER -> 0]

ProtocolRecordSet ==
  { <<2, 1, 7>> } \cup
  { Redfish(rlen, hlen, a) : rlen \in {90, 91, 93}, hlen \in {0, 2, 3}, a \in {0, 1} }

RECURSIVE Concat(_)
Concat(ss) ==
  IF ss = <<>> THEN <<>> ELSE Head(ss) \o Concat(Tail(ss))

\* the structure: interface type t, device data of dl bytes (a USB device),
\* the records recs, declared length N + d where N is the length they make
\* up; then the string area and the bytes after it
HostRecord(t, dl, recs, d) ==
  LET body == <<t, dl>> \o [k \in 1..dl |-> IF k = 1 THEN 2 ELSE 1]
                \o <<Len(recs)>> \o Concat(recs)
  IN <<42, 4 + Len(body) + d, 0, 0>> \o body \o [k \in 1..200 |-> 0]

ControllerInit ==
  /\ \E n \in 0..2 : \E recs \in [1..n -> ProtocolRecordSet] :
       \E t \in {\h40, \hF0}, dl \in {0, 5}, d \in {-3, -1, 0, 1} :
         buf = HostRecord(t, dl, recs, d)
  /\ verArg \in {\h0301, \h0302}
  /\ opt = [flags |-> {}, type |-> NULL, handle |-> NoHandle, string |-> NULL]
  /\ pc = "dmi_decode"
  /\ reads = {}
  /\ out = <<>>
  /\ num = 0 /\ flags = {} /\ i = 0 /\ data = 0
  /\ vendor = NULL /\ log = <<>>
  /\ StrIdle /\ MainIdle /\ EpIdle /\ SizeIdle

SpecController == ControllerInit /\ [][DecNext]_vars

(***************************************************************************)
(* main's search for an entry point.  A candidate is the 0x20 bytes a      *)
(* source holds: the anchor they start with and whether they pass the      *)
(* checks of the decoder of that anchor (declared length and checksums,    *)
(* smbios3_decode, smbios_decode, legacy_decode).  The memory scan steps   *)
(* through MemSlots 16-byte slots; the last slot stands for offset 0xFFF0, *)
(* the one before it for 0xFFE0.                                           *)
(***************************************************************************)
MemSlots == 2      \* 16-byte slots of the scanned memory area

Anchors == {"_SM3_", "_SM_", "_DMI_"}

Candidates ==
  { [anchor |-> "none", valid |-> FALSE] } \cup
  [anchor : Anchors, valid : BOOLEAN]

\* what address_from_efi and the mem_chunk after it give
EfiStates ==
  { [ret |-> r, chunk |-> NULL] : r \in {"EFI_NOT_FOUND", "EFI_NO_SMBIOS", "address"} } \cup
  { [ret |-> "address", chunk |-> <<c>>] : c \in Candidates }

\* the machine: dump is mem_chunk(0, 0x20, opt.dumpfile), sysfs is
\* read_file(SYS_ENTRY_FILE) with whether size is enough for the anchor,
\* mem is mem_chunk(0xF0000, 0x10000), x86 is the build.  The sources a run
\* does not reach by its options or its build hold nothing.
Dumps == {NULL} \cup { <<c>> : c \in Candidates }
SysfsFiles ==
  {NULL} \cup { <<[cand |-> c, size_ok |-> b]>> : c \in Candidates, b \in BOOLEAN }
Mems == {NULL} \cup { <<m>> : m \in [1..MemSlots -> Candidates] }

MainEnvs(f) ==
  IF "FLAG_FROM_DUMP" \in f
  THEN { [dump |-> d, sysfs |-> NULL, efi |-> [ret |-> "EFI_NOT_FOUND", chunk |-> NULL],
          mem |-> NULL, x86 |-> TRUE] : d \in Dumps }
  ELSE { [dump |-> NULL, sysfs |-> s, efi |-> e, mem |-> m, x86 |-> TRUE] :
           s \in (IF "FLAG_NO_SYSFS" \in f THEN {NULL} ELSE SysfsFiles),
           e \in EfiStates, m \in Mems }
       \cup
       { [dump |-> NULL, sysfs |-> s, efi |-> e, mem |-> NULL, x86 |-> FALSE] :
           s \in (IF "FLAG_NO_SYSFS" \in f THEN {NULL} ELSE SysfsFiles),
           e \in EfiStates }

\* smbios3_decode, smbios_decode, legacy_decode: the return value
entry_decode(c) == c.valid

\* the candidate c of source src at offset o goes to its decoder: the
\* decoder calls dmi_table iff it accepts, and main counts found
Probe(src, o, c) ==
  /\ probes' = Append(probes, [source |-> src, at |-> o, anchor |-> c.anchor,
                               accepted |-> entry_decode(c)])
  /\ found' = IF entry_decode(c) THEN found + 1 ELSE found
  /\ tables' = IF entry_decode(c) THEN tables + 1 ELSE tables

NoProbe == UNCHANGED <<probes, found, tables>>

pr_comment(text) == <<"pr_comment", text>>
pr_info(text) == <<"pr_info", text>>
Unless(q, calls) == IF q THEN <<>> ELSE calls

MainInit ==
  /\ opt \in { [flags |-> f, type |-> NULL, handle |-> NoHandle, string |-> NULL] :
                 f \in SUBSET {"FLAG_QUIET", "FLAG_NO_SYSFS", "FLAG_FROM_DUMP"} }
  /\ env \in MainEnvs(opt.flags)
  /\ pc = "main"
  /\ found = 0 /\ mainRet = 0 /\ fp = 0
  /\ tried = <<>> /\ probes = <<>> /\ tables = 0
  /\ out = <<>>
  /\ buf = <<>> /\ num = 0 /\ flags = {} /\ i = 0 /\ data = 0
  /\ vendor = NULL /\ log = <<>>
  /\ StrIdle /\ DecIdle /\ EpIdle /\ SizeIdle

\* what main leaves alone
MainRest == <<buf, num, flags, opt, i, data, vendor, log, strVars, decVars, epVars, sizeVars, env>>

\* the banner, and the choice between the dump file and the live sources
MainStart ==
  /\ pc = "main"
  /\ out' = out \o Unless(quiet, <<pr_comment("dmidecode %s")>>)
  /\ pc' = IF "FLAG_FROM_DUMP" \in opt.flags THEN "from_dump" ELSE "sysfs"
  /\ NoProbe
  /\ UNCHANGED <<mainRet, fp, tried, MainRest>>

\* if (opt.flags & FLAG_FROM_DUMP) { ... goto done; }
FromDump ==
  /\ pc = "from_dump"
  /\ tried' = Append(tried, "dump")
  /\ out' = out \o Unless(quiet, <<pr_info("Reading SMBIOS/DMI data from file %s.")>>)
  /\ IF env.dump = NULL
     THEN mainRet' = 1 /\ pc' = "exit" /\ NoProbe
     ELSE /\ IF env.dump[1].anchor \in Anchors
             THEN Probe("dump", 0, env.dump[1])
             ELSE NoProbe
          /\ pc' = "done"
          /\ UNCHANGED mainRet
  /\ UNCHANGED <<fp, MainRest>>

\* First try reading from sysfs tables: read_file is called unless
\* FLAG_NO_SYSFS is set
TrySysfs ==
  /\ pc = "sysfs"
  /\ tried' = IF "FLAG_NO_SYSFS" \notin opt.flags THEN Append(tried, "sysfs") ELSE tried
  /\ IF "FLAG_NO_SYSFS" \notin opt.flags /\ env.sysfs # NULL
     THEN LET f == env.sysfs[1]
              decoded == f.size_ok /\ f.cand.anchor \in Anchors
              ok == decoded /\ entry_decode(f.cand)
          IN /\ IF decoded THEN Probe("sysfs", 0, f.cand) ELSE NoProbe
             /\ out' = out \o Unless(quiet, <<pr_info("Getting SMBIOS data from sysfs.")>>)
                         \o Unless(quiet \/ ok, <<pr_info("Failed to get SMBIOS data from sysfs.")>>)
             /\ pc' = IF ok THEN "done" ELSE "efi"
     ELSE /\ pc' = "efi"
          /\ NoProbe
          /\ UNCHANGED out
  /\ UNCHANGED <<mainRet, fp, MainRest>>

\* the goto after the candidate found through EFI was decoded, as it would
\* be if a rejected candidate fell through to the memory scan
AfterEfiFallThrough(accepted) ==
  IF accepted THEN "done" ELSE "memory_scan"

\* the goto after the candidate found through EFI was decoded
AfterEfi(accepted) == "done"

\* Next try EFI
TryEfi ==
  /\ pc = "efi"
  /\ tried' = Append(tried, "efi")
  /\ CASE env.efi.ret = "EFI_NOT_FOUND" ->
            /\ pc' = "memory_scan"
            /\ NoProbe
            /\ UNCHANGED <<mainRet, out>>
       [] env.efi.ret = "EFI_NO_SMBIOS" ->
            /\ mainRet' = 1
            /\ pc' = "exit"
            /\ NoProbe
            /\ UNCHANGED out
       [] OTHER ->
            /\ out' = out \o Unless(quiet,
                 <<pr_info("Found SMBIOS entry point in EFI, reading table from %s.")>>)
            /\ IF env.efi.chunk = NULL
               THEN mainRet' = 1 /\ pc' = "exit" /\ NoProbe
               ELSE LET c == env.efi.chunk[1]
                        decoded == c.anchor \in {"_SM3_", "_SM_"}
                    IN /\ IF decoded THEN Probe("efi", 0, c) ELSE NoProbe
                       /\ pc' = AfterEfi(decoded /\ entry_decode(c))
                       /\ UNCHANGED mainRet
  /\ UNCHANGED <<fp, MainRest>>

\* memory_scan: compiled in on x86 only
MemoryScan ==
  /\ pc = "memory_scan"
  /\ IF ~env.x86
     THEN pc' = "done" /\ UNCHANGED <<tried, out, mainRet>>
     ELSE /\ tried' = Append(tried, "memory_scan")
          /\ out' = out \o Unless(quiet, <<pr_info("Scanning %s for entry point.")>>)
          /\ IF env.mem = NULL
             THEN mainRet' = 1 /\ pc' = "exit"
             ELSE pc' = "scan64" /\ UNCHANGED mainRet
  /\ fp' = 0
  /\ NoProbe
  /\ UNCHANGED MainRest

\* the scan loops as they would be without the goto done
ScanGotoContinue(accepted, loop) == loop

\* where a scan loop goes after a slot: done on acceptance
ScanGoto(accepted, loop) ==
  IF accepted THEN "done" ELSE loop

\* for (fp = 0; fp <= 0xFFE0; fp += 16): look for a 64-bit entry point
Scan64Step ==
  /\ pc = "scan64"
  /\ IF fp <= MemSlots - 2
     THEN LET c == env.mem[1][fp + 1]
          IN IF c.anchor = "_SM3_"
             THEN /\ Probe("memory_scan", fp, c)
                  /\ pc' = ScanGoto(entry_decode(c), "scan64")
                  /\ fp' = IF pc' = "scan64" THEN fp + 1 ELSE fp
             ELSE NoProbe /\ fp' = fp + 1 /\ pc' = "scan64"
     ELSE NoProbe /\ fp' = 0 /\ pc' = "scan32"
  /\ UNCHANGED <<mainRet, tried, out, MainRest>>

\* for (fp = 0; fp <= 0xFFF0; fp += 16): look for a 32-bit entry point
Scan32Step ==
  /\ pc = "scan32"
  /\ IF fp <= MemSlots - 1
     THEN LET c == env.mem[1][fp + 1]
          IN IF (c.anchor = "_SM_" /\ fp <= MemSlots - 2) \/ c.anchor = "_DMI_"
             THEN /\ Probe("memory_scan", fp, c)
                  /\ pc' = ScanGoto(entry_decode(c), "scan32")
                  /\ fp' = IF pc' = "scan32" THEN fp + 1 ELSE fp
             ELSE NoProbe /\ fp' = fp + 1 /\ pc' = "scan32"
     ELSE NoProbe /\ fp' = fp /\ pc' = "done"
  /\ UNCHANGED <<mainRet, tried, out, MainRest>>

\* done: ... exit_free: return ret;
Done ==
  /\ pc = "done"
  /\ out' = out \o Unless(found # 0 \/ quiet,
              <<pr_comment("No SMBIOS nor DMI entry point found, sorry.")>>)
  /\ pc' = "exit"
  /\ NoProbe
  /\ UNCHANGED <<mainRet, fp, tried, MainRest>>

MainNext ==
  \/ MainStart
  \/ FromDump
  \/ TrySysfs
  \/ TryEfi
  \/ MemoryScan
  \/ Scan64Step
  \/ Scan32Step
  \/ Done

SpecMain == MainInit /\ [][MainNext]_vars

(***************************************************************************)
(* One entry point given to its decoder.  buf holds the 0x20 bytes read    *)
(* from the source; the decoder validates them and hands the table they    *)
(* announce to dmi_table.  Multi-byte fields are kept as their bytes,      *)
(* least significant first.                                                *)
(***************************************************************************)
\* byte k (0-based) of the bytes e
At(e, k) == e[k + 1]

\* the sum of the n bytes of e from offset o, as a u8
RECURSIVE ByteSum(_, _, _)
ByteSum(e, o, n) ==
  IF n = 0 THEN 0 ELSE (At(e, o) + ByteSum(e, o + 1, n - 1)) % 256

\* checksum(buf + o, n) of util.c: the n bytes sum to 0 as a u8
checksum(e, o, n) == ByteSum(e, o, n) = 0

\* the characters of the anchors
SM3 == <<95, 83, 77, 51, 95>>    \* _SM3_
SM == <<95, 83, 77, 95>>         \* _SM_
DMI == <<95, 68, 77, 73, 95>>    \* _DMI_

\* the bytes of the string literal u"chars": an array of char16_t, one
\* 16-bit code unit per character, least significant byte first, and the
\* terminating null code unit
u(chars) ==
  [k \in 1..(2 * Len(chars) + 2) |->
     IF k % 2 = 1 /\ (k + 1) \div 2 <= Len(chars) THEN chars[(k + 1) \div 2]
     ELSE 0]

\* memcmp(buf + o, lit, n) == 0: the n bytes of e at o are the first n
\* bytes of the object lit
HasAnchor(e, o, lit, n) ==
  \A k \in 1..n : At(e, o + k - 1) = lit[k]

\* e with the byte at offset k set to (the u8) v
SetByte(e, k, v) == [e EXCEPT ![k + 1] = v % 256]

\* e with the byte at offset k chosen so that the n bytes from o sum to by
Balance(e, k, o, n, by) ==
  SetByte(e, k, At(e, k) + 256 + by - ByteSum(e, o, n))

\* the first n bytes that memcmp matches against the literal of chars, and
\* the characters themselves as firmware writes them
AnchorBytes(chars, n) == {SubSeq(u(chars), 1, n), chars}

\* a 64-bit entry point: its first five bytes h, declared length L, address
\* bytes a0 (0x10) and a4 (0x14), the byte t after the structure (0x18),
\* checksum off by ck
Sm3Entry(h, L, a0, a4, t, ck) ==
  LET e == h \o <<0, L, 3, 2, 0, 1, 0, 96, 0, 0, 0,
                    a0, 0, 0, 0, a4, 0, 0, 0,
                    t, 0, 0, 0, 0, 0, 0, 0>>
  IN Balance(e, 5, 0, IF L > 32 THEN 32 ELSE L, ck)

\* a 32-bit entry point: its first four bytes h, declared length L, version
\* major.minor, the five bytes d at 0x10, address byte a0 (0x18), the BCD
\* revision r (0x1E), the byte t after the structure (0x1F), the
\* intermediate checksum off by ick and the checksum off by ck
SmEntry(h, L, major, minor, d, a0, r, t, ick, ck) ==
  LET e == h \o <<0, L, major, minor, 64, 0, 0, 0, 0, 0, 0, 0>>
             \o d \o <<0, 96, 0, a0, 0, 0, 0, 2, 0, r, t>>
      f == Balance(e, 21, 16, 15, ick)
  IN Balance(f, 4, 0, IF L > 32 THEN 32 ELSE L, ck)

\* a legacy entry point: its first five bytes h, address byte a0 (0x08),
\* BCD revision r, checksum off by ck, and the bytes that follow it in the
\* source
DmiEntry(h, a0, r, ck) ==
  LET e == h \o <<0, 96, 0, a0, 0, 0, 0, 2, 0, r>>
               \o [k \in 1..17 |-> 0]
  IN Balance(e, 5, 0, 15, ck)

Sm3Entries ==
  { Sm3Entry(h, L, a0, a4, t, ck) :
      h \in AnchorBytes(SM3, 5),
      L \in {16, 24, 25, 32, 33}, a0 \in {32, 64}, a4 \in {0, 1},
      t \in {0, 255}, ck \in {0, 1} }

SmEntries ==
  { SmEntry(h, L, v[1], v[2], d, a0, r, t, ick, ck) :
      h \in AnchorBytes(SM, 4),
      L \in {30, 31, 32, 33},
      v \in {<<2, 7>>, <<2, 31>>, <<2, 33>>, <<2, 51>>, <<3, 0>>},
      d \in AnchorBytes(DMI, 5), a0 \in {32, 64}, r \in {0, 36}, t \in {0, 255},
      ick \in {0, 1}, ck \in {0, 1} }

DmiEntries ==
  { DmiEntry(h, a0, r, ck) :
      h \in AnchorBytes(DMI, 5), a0 \in {32, 64}, r \in {35, 36}, ck \in {0, 1} }

\* what a decoder did: its return value, the checksum calls it made (offset
\* and length), the call of dmi_table if any, what it printed, and the
\* bytes it wrote at offset 0 of the dump file if any
Rejected0(sums, msgs) ==
  [ret |-> 0, sums |-> sums, table |-> NULL, msgs |-> msgs, written |-> NULL]

\* overwrite_dmi_address(buf + o)
overwrite_dmi_address(e, o) ==
  LET c == SetByte(e, o + 5,
             At(e, o + 5) + At(e, o + 8) + At(e, o + 9) + At(e, o + 10)
               + At(e, o + 11) + 256 - 32)
  IN [k \in 1..Len(c) |->
        IF k - 1 = o + 8 THEN 32
        ELSE IF k - 1 \in (o + 9)..(o + 11) THEN 0
        ELSE c[k]]

\* overwrite_smbios3_address(buf)
overwrite_smbios3_address(e) ==
  LET c == SetByte(e, 5, At(e, 5) + ByteSum(e, 16, 8) + 256 - 32)
  IN [k \in 1..Len(c) |->
        IF k - 1 = 16 THEN 32
        ELSE IF k - 1 \in 17..23 THEN 0
        ELSE c[k]]

\* if (opt.flags & FLAG_DUMP_BIN) write_dump(0, n, crafted, opt.dumpfile, 1)
WriteDump(crafted, n) ==
  IF "FLAG_DUMP_BIN" \in opt.flags THEN <<SubSeq(crafted, 1, n)>> ELSE NULL

\* what is printed before the crafted entry point is written
Writing == Unless(quiet \/ "FLAG_DUMP_BIN" \notin opt.flags, <<"Writing %d bytes to %s.">>)

\* if (buf[0x06] > 0x20): don't let checksum run beyond the buffer
TooLarge(L) == L > 32

\* the checksum over the declared length as it would be over a fixed 15 bytes
EntryChecksumFirst15(e, n) == checksum(e, 0, 15)

\* checksum(buf, n) over the declared (or, for legacy_decode, fixed) length
EntryChecksum(e, n) == checksum(e, 0, n)

\* checksum(buf + 0x10, 0x0F)
LegacyPartSum(e) == checksum(e, 16, 15)

smbios3_decode(e, fl) ==
  IF TooLarge(At(e, 6))
  THEN Rejected0(<<>>, <<"Entry point length too large">>)
  ELSE IF ~EntryChecksum(e, At(e, 6))
  THEN Rejected0(<<<<0, At(e, 6)>>>>, <<>>)
  ELSE IF "FLAG_NO_FILE_OFFSET" \notin fl /\ SubSeq(e, 21, 24) # <<0, 0, 0, 0>> /\ ~wide
  THEN Rejected0(<<<<0, At(e, 6)>>>>,
                 Unless(quiet, <<"SMBIOS %u.%u.%u present.">>)
                   \o <<"64-bit addresses not supported, sorry.">>)
  ELSE [ret |-> 1,
        sums |-> <<<<0, At(e, 6)>>>>,
        table |-> <<[base |-> SubSeq(e, 17, 24), len |-> SubSeq(e, 13, 16),
                     num |-> <<0, 0>>,
                     ver |-> At(e, 7) * 65536 + At(e, 8) * 256 + At(e, 9),
                     flags |-> fl \cup {"FLAG_STOP_AT_EOT"}]>>,
        msgs |-> Unless(quiet, <<"SMBIOS %u.%u.%u present.">>) \o Writing,
        written |-> WriteDump(overwrite_smbios3_address(e), At(overwrite_smbios3_address(e), 6))]

\* the version as it would be handed on without any fixup
VersionAsReported(ver) == ver

\* Some BIOS report weird SMBIOS version, fix that up
VersionFixup(ver) ==
  CASE ver \in {543, 545} -> 515     \* 0x021F, 0x0221 -> 0x0203
    [] ver = 563 -> 518              \* 0x0233 -> 0x0206
    [] OTHER -> ver

smbios_decode(e, fl) ==
  IF TooLarge(At(e, 5))
  THEN Rejected0(<<>>, <<"Entry point length too large">>)
  ELSE IF ~EntryChecksum(e, At(e, 5))
  THEN Rejected0(<<<<0, At(e, 5)>>>>, <<>>)
  ELSE IF ~HasAnchor(e, 16, u(DMI), 5)
  THEN Rejected0(<<<<0, At(e, 5)>>>>, <<>>)
  ELSE IF ~LegacyPartSum(e)
  THEN Rejected0(<<<<0, At(e, 5)>>, <<16, 15>>>>, <<>>)
  ELSE LET ver == At(e, 6) * 256 + At(e, 7)
       IN [ret |-> 1,
           sums |-> <<<<0, At(e, 5)>>, <<16, 15>>>>,
           table |-> <<[base |-> SubSeq(e, 25, 28), len |-> SubSeq(e, 23, 24),
                        num |-> SubSeq(e, 29, 30),
                        ver |-> VersionFixup(ver) * 256,
                        flags |-> fl]>>,
           msgs |-> Unless(quiet \/ VersionFixup(ver) = ver, <<"SMBIOS version fixup">>)
                      \o Unless(quiet, <<"SMBIOS %u.%u present.">>) \o Writing,
           written |-> WriteDump(overwrite_dmi_address(e, 16),
                                 At(overwrite_dmi_address(e, 16), 5))]

legacy_decode(e, fl) ==
  IF ~EntryChecksum(e, 15)
  THEN Rejected0(<<<<0, 15>>>>, <<>>)
  ELSE [ret |-> 1,
        sums |-> <<<<0, 15>>>>,
        table |-> <<[base |-> SubSeq(e, 9, 12), len |-> SubSeq(e, 7, 8),
                     num |-> SubSeq(e, 13, 14),
                     ver |-> (At(e, 14) \div 16) * 65536 + (At(e, 14) % 16) * 256,
                     flags |-> fl]>>,
        msgs |-> Unless(quiet, <<"Legacy DMI %u.%u present.">>) \o Writing,
        written |-> WriteDump(overwrite_dmi_address(e, 0), 15)]

Decode(d, e, fl) ==
  CASE d = "smbios3_decode" -> smbios3_decode(e, fl)
    [] d = "smbios_decode" -> smbios_decode(e, fl)
    [] d = "legacy_decode" -> legacy_decode(e, fl)

\* the decoder main's dump branch picks for the bytes e, or ""
DumpDecoder(e) ==
  IF HasAnchor(e, 0, u(SM3), 5) THEN "smbios3_decode"
  ELSE IF HasAnchor(e, 0, u(SM), 4) THEN "smbios_decode"
  ELSE IF HasAnchor(e, 0, u(DMI), 5) THEN "legacy_decode"
  ELSE ""

\* the first 0x20 bytes of the dump file: what was written at offset 0,
\* then the hole up to the table at offset 32
DumpHead(written) ==
  written \o [k \in 1..(32 - Len(written)) |-> 0]

\* the bytes of e its decoder sums
Region(d, e) ==
  CASE d = "smbios3_decode" -> 0..(At(e, 6) - 1)
    [] d = "smbios_decode" -> (0..(At(e, 5) - 1)) \cup (16..30)
    [] d = "legacy_decode" -> 0..14

\* what is added (as a u8) to a byte to change it
MutDeltas == {1, 128, 255}

EpOpts ==
  { [flags |-> f, type |-> NULL, handle |-> NoHandle, string |-> NULL] :
      f \in SUBSET {"FLAG_QUIET", "FLAG_DUMP_BIN"} }

EpInit ==
  /\ \/ decoder = "smbios3_decode" /\ buf \in Sm3Entries /\ wide \in BOOLEAN
     \/ decoder = "smbios_decode" /\ buf \in SmEntries /\ wide = TRUE
     \/ decoder = "legacy_decode" /\ buf \in DmiEntries /\ wide = TRUE
  /\ opt \in EpOpts
  /\ flags \in {{}, {"FLAG_NO_FILE_OFFSET"}}
  /\ pc = "entry"
  /\ res = NULL /\ prev = NULL
  /\ out = <<>>
  /\ num = 0 /\ i = 0 /\ data = 0 /\ vendor = NULL /\ log = <<>>
  /\ StrIdle /\ DecIdle /\ MainIdle /\ SizeIdle

EpRest == <<num, i, data, vendor, log, strVars, decVars, mainVars, sizeVars, decoder, wide>>

\* the decoder is called on the bytes of the source
EpDecode ==
  /\ pc = "entry"
  /\ res' = <<Decode(decoder, buf, flags)>>
  /\ out' = out \o res'[1].msgs
  /\ pc' = "decoded_entry"
  /\ UNCHANGED <<buf, flags, opt, prev, EpRest>>

\* the source holds the accepted entry point with one summed byte changed,
\* and the decoder is called on it
EpMutate ==
  /\ pc = "decoded_entry"
  /\ res[1].ret = 1
  /\ \E k \in Region(decoder, buf) \cap (0..31), d \in MutDeltas :
       /\ buf' = SetByte(buf, k, At(buf, k) + d)
       /\ prev' = <<[buf |-> buf, res |-> res[1], at |-> k]>>
  /\ res' = <<Decode(decoder, buf', flags)>>
  /\ out' = res'[1].msgs
  /\ pc' = "mutated"
  /\ UNCHANGED <<flags, opt, EpRest>>

\* the dump file just written is read back (--from-dump): main reads its
\* first 0x20 bytes and calls the decoder of their anchor with flags 0
EpReadBack ==
  /\ pc = "decoded_entry"
  /\ res[1].written # NULL
  /\ buf' = DumpHead(res[1].written[1])
  /\ opt' = [opt EXCEPT !.flags = (@ \ {"FLAG_DUMP_BIN"}) \cup {"FLAG_FROM_DUMP"}]
  /\ flags' = {}
  /\ prev' = <<[buf |-> buf, res |-> res[1], at |-> 0 - 1]>>
  /\ res' = (IF DumpDecoder(buf) = "" THEN <<Rejected0(<<>>, <<>>)>>
             ELSE <<Decode(DumpDecoder(buf), buf, flags)>>)'
  /\ out' = res'[1].msgs
  /\ pc' = "read_back"
  /\ UNCHANGED EpRest

EpNext ==
  \/ EpDecode
  \/ EpMutate
  \/ EpReadBack

SpecEntry == EpInit /\ [][EpNext]_vars

(***************************************************************************)
(* One call of dmi_processor_family(h, ver) on the Processor Information   *)
(* record in buf.  family2 is the table of the source, entry by entry.     *)
(***************************************************************************)
MaxSearch == 16    \* iterations after which the model gives a binary search up

\* family2[]: value and name, in the order of the source
family2 ==
  <<
     <<\h01, "Other">>,
     <<\h02, "Unknown">>,
     <<\h03, "8086">>,
     <<\h04, "80286">>,
     <<\h05, "80386">>,
     <<\h06, "80486">>,
     <<\h07, "8087">>,
     <<\h08, "80287">>,
     <<\h09, "80387">>,
     <<\h0A, "80487">>,
     <<\h0B, "Pentium">>,
     <<\h0C, "Pentium Pro">>,
     <<\h0D, "Pentium II">>,
     <<\h0E, "Pentium MMX">>,
     <<\h0F, "Celeron">>,
     <<\h10, "Pentium II Xeon">>,
     <<\h11, "Pentium III">>,
     <<\h12, "M1">>,
     <<\h13, "M2">>,
     <<\h14, "Celeron M">>,
     <<\h15, "Pentium 4 HT">>,
     <<\h18, "Duron">>,
     <<\h19, "K5">>,
     <<\h1A, "K6">>,
     <<\h1B, "K6-2">>,
     <<\h1C, "K6-3">>,
     <<\h1D, "Athlon">>,
     <<\h1E, "AMD29000">>,
     <<\h1F, "K6-2+">>,
     <<\h20, "Power PC">>,
     <<\h21, "Power PC 601">>,
     <<\h22, "Power PC 603">>,
     <<\h23, "Power PC 603+">>,
     <<\h24, "Power PC 604">>,
     <<\h25, "Power PC 620">>,
     <<\h26, "Power PC x704">>,
     <<\h27, "Power PC 750">>,
     <<\h28, "Core Duo">>,
     <<\h29, "Core Duo Mobile">>,
     <<\h2A, "Core Solo Mobile">>,
     <<\h2B, "Atom">>,
     <<\h2C, "Core M">>,
     <<\h2D, "Core m3">>,
     <<\h2E, "Core m5">>,
     <<\h2F, "Core m7">>,
     <<\h30, "Alpha">>,
     <<\h31, "Alpha 21064">>,
     <<\h32, "Alpha 21066">>,
     <<\h33, "Alpha 21164">>,
     <<\h34, "Alpha 21164PC">>,
     <<\h35, "Alpha 21164a">>,
     <<\h36, "Alpha 21264">>,
     <<\h37, "Alpha 21364">>,
     <<\h38, "Turion II Ultra Dual-Core Mobile M">>,
     <<\h39, "Turion II Dual-Core Mobile M">>,
     <<\h3A, "Athlon II Dual-Core M">>,
     <<\h3B, "Opteron 6100">>,
     <<\h3C, "Opteron 4100">>,
     <<\h3D, "Opteron 6200">>,
     <<\h3E, "Opteron 4200">>,
     <<\h3F, "FX">>,
     <<\h40, "MIPS">>,
     <<\h41, "MIPS R4000">>,
     <<\h42, "MIPS R4200">>,
     <<\h43, "MIPS R4400">>,
     <<\h44, "MIPS R4600">>,
     <<\h45, "MIPS R10000">>,
     <<\h46, "C-Series">>,
     <<\h47, "E-Series">>,
     <<\h48, "A-Series">>,
     <<\h49, "G-Series">>,
     <<\h4A, "Z-Series">>,
     <<\h4B, "R-Series">>,
     <<\h4C, "Opteron 4300">>,
     <<\h4D, "Opteron 6300">>,
     <<\h4E, "Opteron 3300">>,
     <<\h4F, "FirePro">>,
     <<\h50, "SPARC">>,
     <<\h51, "SuperSPARC">>,
     <<\h52, "MicroSPARC II">>,
     <<\h53, "MicroSPARC IIep">>,
     <<\h54, "UltraSPARC">>,
     <<\h55, "UltraSPARC II">>,
     <<\h56, "UltraSPARC IIi">>,
     <<\h57, "UltraSPARC III">>,
     <<\h58, "UltraSPARC IIIi">>,
     <<\h60, "68040">>,
     <<\h61, "68xxx">>,
     <<\h62, "68000">>,
     <<\h63, "68010">>,
     <<\h64, "68020">>,
     <<\h65, "68030">>,
     <<\h66, "Athlon X4">>,
     <<\h67, "Opteron X1000">>,
     <<\h68, "Opteron X2000">>,
     <<\h69, "Opteron A-Series">>,
     <<\h6A, "Opteron X3000">>,
     <<\h6B, "Zen">>,
     <<\h70, "Hobbit">>,
     <<\h78, "Crusoe TM5000">>,
     <<\h79, "Crusoe TM3000">>,
     <<\h7A, "Efficeon TM8000">>,
     <<\h80, "Weitek">>,
     <<\h82, "Itanium">>,
     <<\h83, "Athlon 64">>,
     <<\h84, "Opteron">>,
     <<\h85, "Sempron">>,
     <<\h86, "Turion 64">>,
     <<\h87, "Dual-Core Opteron">>,
     <<\h88, "Athlon 64 X2">>,
     <<\h89, "Turion 64 X2">>,
     <<\h8A, "Quad-Core Opteron">>,
     <<\h8B, "Third-Generation Opteron">>,
     <<\h8C, "Phenom FX">>,
     <<\h8D, "Phenom X4">>,
     <<\h8E, "Phenom X2">>,
     <<\h8F, "Athlon X2">>,
     <<\h90, "PA-RISC">>,
     <<\h91, "PA-RISC 8500">>,
     <<\h92, "PA-RISC 8000">>,
     <<\h93, "PA-RISC 7300LC">>,
     <<\h94, "PA-RISC 7200">>,
     <<\h95, "PA-RISC 7100LC">>,
     <<\h96, "PA-RISC 7100">>,
     <<\hA0, "V30">>,
     <<\hA1, "Quad-Core Xeon 3200">>,
     <<\hA2, "Dual-Core Xeon 3000">>,
     <<\hA3, "Quad-Core Xeon 5300">>,
     <<\hA4, "Dual-Core Xeon 5100">>,
     <<\hA5, "Dual-Core Xeon 5000">>,
     <<\hA6, "Dual-Core Xeon LV">>,
     <<\hA7, "Dual-Core Xeon ULV">>,
     <<\hA8, "Dual-Core Xeon 7100">>,
     <<\hA9, "Quad-Core Xeon 5400">>,
     <<\hAA, "Quad-Core Xeon">>,
     <<\hAB, "Dual-Core Xeon 5200">>,
     <<\hAC, "Dual-Core Xeon 7200">>,
     <<\hAD, "Quad-Core Xeon 7300">>,
     <<\hAE, "Quad-Core Xeon 7400">>,
     <<\hAF, "Multi-Core Xeon 7400">>,
     <<\hB0, "Pentium III Xeon">>,
     <<\hB1, "Pentium III Speedstep">>,
     <<\hB2, "Pentium 4">>,
     <<\hB3, "Xeon">>,
     <<\hB4, "AS400">>,
     <<\hB5, "Xeon MP">>,
     <<\hB6, "Athlon XP">>,
     <<\hB7, "Athlon MP">>,
     <<\hB8, "Itanium 2">>,
     <<\hB9, "Pentium M">>,
     <<\hBA, "Celeron D">>,
     <<\hBB, "Pentium D">>,
     <<\hBC, "Pentium EE">>,
     <<\hBD, "Core Solo">>,
     <<\hBF, "Core 2 Duo">>,
     <<\hC0, "Core 2 Solo">>,
     <<\hC1, "Core 2 Extreme">>,
     <<\hC2, "Core 2 Quad">>,
     <<\hC3, "Core 2 Extreme Mobile">>,
     <<\hC4, "Core 2 Duo Mobile">>,
     <<\hC5, "Core 2 Solo Mobile">>,
     <<\hC6, "Core i7">>,
     <<\hC7, "Dual-Core Celeron">>,
     <<\hC8, "IBM390">>,
     <<\hC9, "G4">>,
     <<\hCA, "G5">>,
     <<\hCB, "ESA/390 G6">>,
     <<\hCC, "z/Architecture">>,
     <<\hCD, "Core i5">>,
     <<\hCE, "Core i3">>,
     <<\hCF, "Core i9">>,
     <<\hD2, "C7-M">>,
     <<\hD3, "C7-D">>,
     <<\hD4, "C7">>,
     <<\hD5, "Eden">>,
     <<\hD6, "Multi-Core Xeon">>,
     <<\hD7, "Dual-Core Xeon 3xxx">>,
     <<\hD8, "Quad-Core Xeon 3xxx">>,
     <<\hD9, "Nano">>,
     <<\hDA, "Dual-Core Xeon 5xxx">>,
     <<\hDB, "Quad-Core Xeon 5xxx">>,
     <<\hDD, "Dual-Core Xeon 7xxx">>,
     <<\hDE, "Quad-Core Xeon 7xxx">>,
     <<\hDF, "Multi-Core Xeon 7xxx">>,
     <<\hE0, "Multi-Core Xeon 3400">>,
     <<\hE4, "Opteron 3000">>,
     <<\hE5, "Sempron II">>,
     <<\hE6, "Embedded Opteron Quad-Core">>,
     <<\hE7, "Phenom Triple-Core">>,
     <<\hE8, "Turion Ultra Dual-Core Mobile">>,
     <<\hE9, "Turion Dual-Core Mobile">>,
     <<\hEA, "Athlon Dual-Core">>,
     <<\hEB, "Sempron SI">>,
     <<\hEC, "Phenom II">>,
     <<\hED, "Athlon II">>,
     <<\hEE, "Six-Core Opteron">>,
     <<\hEF, "Sempron M">>,
     <<\hFA, "i860">>,
     <<\hFB, "i960">>,
     <<\h100, "ARMv7">>,
     <<\h101, "ARMv8">>,
     <<\h104, "SH-3">>,
     <<\h105, "SH-4">>,
     <<\h118, "ARM">>,
     <<\h119, "StrongARM">>,
     <<\h12C, "6x86">>,
     <<\h12D, "MediaGX">>,
     <<\h12E, "MII">>,
     <<\h140, "WinChip">>,
     <<\h15E, "DSP">>,
     <<\h1F4, "Video Processor">>,
     <<\h200, "RV32">>,
     <<\h201, "RV64">>,
     <<\h202, "RV128">>
  >>

\* strstr(m, u"chars") != NULL || strncasecmp(m, u"chars", n) == 0 for the
\* C string m.  Both functions take the literal as a char pointer: the C
\* string it designates is the bytes of the literal up to its first null byte
Matches(m, chars, n) ==
  LET lit      == CStr(u(chars), 0)
      lower(c) == IF 65 <= c /\ c <= 90 THEN c + 32 ELSE c
      take(s)  == [k \in 1..(IF Len(s) < n THEN Len(s) ELSE n) |-> lower(s[k])]
  IN \/ \E k \in 0..(Len(m) - Len(lit)) : SubSeq(m, k + 1, k + Len(lit)) = lit
     \/ take(m) = take(lit)

\* the binary search as it would be with "low = i" in place of "low = i + 1"
RECURSIVE BinarySearchLowAtMiddle(_, _, _, _)
BinarySearchLowAtMiddle(code, low, high, fuel) ==
  LET m == (low + high) \div 2
  IN IF family2[m + 1][1] = code THEN family2[m + 1][2]
     ELSE IF low = high THEN out_of_spec
     ELSE IF fuel = 0 THEN "(still searching)"
     ELSE IF code < family2[m + 1][1]
     THEN BinarySearchLowAtMiddle(code, low, m, fuel - 1)
     ELSE BinarySearchLowAtMiddle(code, m, high, fuel - 1)

\* while (1) { i = (low + high) / 2; ... }: the name returned; fuel is the
\* number of iterations left before the model gives the search up
RECURSIVE BinarySearch(_, _, _, _)
BinarySearch(code, low, high, fuel) ==
  LET m == (low + high) \div 2
  IN IF family2[m + 1][1] = code THEN family2[m + 1][2]
     ELSE IF low = high THEN out_of_spec
     ELSE IF fuel = 0 THEN "(still searching)"
     ELSE IF code < family2[m + 1][1]
     THEN BinarySearch(code, low, m, fuel - 1)
     ELSE BinarySearch(code, m + 1, high, fuel - 1)

\* dmi_processor_family(h, ver): the offsets read through data, the name
\* returned and whether the binary search returned it.  manufacturer is what dmi_string(h, data[0x07]) points to (the
\* two static strings hold none of the names looked for)
dmi_processor_family(h, v) ==
  LET Intel        == <<73, 110, 116, 101, 108>>
      AMD          == <<65, 77, 68>>
      manufacturer == LET r == dmi_string(0, h, B(\h07))
                      IN IF r.ptr = "bp" THEN CStr(r.buf, r.at) ELSE <<>>
      special30    == v = \h0200 /\ B(\h06) = \h30 /\ h.length >= \h08
      code         == IF B(\h06) = \hFE /\ h.length >= \h2A
                      THEN B(\h28) + 256 * B(\h29) ELSE B(\h06)
      rd           == {\h06}
                        \cup (IF special30 \/ (code = \hBE /\ h.length >= \h08)
                              THEN {\h07} ELSE {})
                        \cup (IF B(\h06) = \hFE /\ h.length >= \h2A
                              THEN WORD(\h28) ELSE {})
      name         == IF special30 /\ Matches(manufacturer, Intel, 5)
                      THEN "Pentium Pro"
                      ELSE IF code = \hBE
                      THEN IF h.length >= \h08 /\ Matches(manufacturer, Intel, 5)
                           THEN "Core 2"
                           ELSE IF h.length >= \h08 /\ Matches(manufacturer, AMD, 3)
                           THEN "K7"
                           ELSE "Core 2 or K7"
                      ELSE BinarySearch(code, 0, Len(family2) - 1, MaxSearch)
  IN [reads |-> rd, name |-> name,
      searched |-> ~(special30 /\ Matches(manufacturer, Intel, 5)) /\ code # \hBE]

\* Processor Information records: declared length L, family byte c6,
\* Processor Family 2 field c2, the strings m (the manufacturer is string 1)
FamilyRecord(L, c6, c2, m) ==
  [k \in 1..L |->
     CASE k = 1 -> 4
       [] k = 2 -> L
       [] k = \h06 + 1 -> c6
       [] k = \h07 + 1 -> 1
       [] k = \h28 + 1 -> c2 % 256
       [] k = \h29 + 1 -> c2 \div 256
       [] OTHER -> 0] \o Area(m)

FamilyInit ==
  /\ \/ \E c2 \in 0..65535 :
          buf = FamilyRecord(\h2A, \hFE, c2, <<<<73, 110, 116, 101, 108>>>>) /\ verArg = \h0300
     \/ \E c6 \in 0..255, L \in {\h1A, \h2A},
           m \in {<<>>, <<<<73, 110, 116, 101, 108>>>>, <<<<65, 77, 68>>>>} :
          buf = FamilyRecord(L, c6, \h0101, m) /\ verArg \in {\h0200, \h0206}
  /\ pc = "dmi_processor_family"
  /\ reads = {}
  /\ out = <<>>
  /\ num = 0 /\ flags = {} /\ i = 0 /\ data = 0
  /\ opt = [flags |-> {}, type |-> NULL, handle |-> NoHandle, string |-> NULL]
  /\ vendor = NULL /\ log = <<>>
  /\ StrIdle /\ MainIdle /\ EpIdle /\ SizeIdle

DmiProcessorFamilyCall ==
  /\ pc = "dmi_processor_family"
  /\ LET r == dmi_processor_family(to_dmi_header(0), verArg)
     IN /\ reads' = r.reads
        /\ ret' = <<[name |-> r.name, searched |-> r.searched]>>
  /\ pc' = "named"
  /\ UNCHANGED <<buf, num, flags, opt, i, data, vendor, out, log, verArg, sArg, mainVars, epVars, sizeVars>>

FamilyNext ==
  DmiProcessorFamilyCall

SpecFamily == FamilyInit /\ [][FamilyNext]_vars

(***************************************************************************)
(* One call of dmi_table_string(h, data, ver) on the record in buf, for    *)
(* the keyword opt.string points to.  reads collects the offsets read      *)
(* through data (not the bytes dmi_string reads in the string area), out   *)
(* the printf calls.                                                       *)
(***************************************************************************)
\* opt_string_keyword[]: keyword, type, offset
opt_string_keyword ==
  << <<"bios-vendor", 0, \h04>>,
     <<"bios-version", 0, \h05>>,
     <<"bios-release-date", 0, \h08>>,
     <<"bios-revision", 0, \h15>>,
     <<"firmware-revision", 0, \h17>>,
     <<"system-manufacturer", 1, \h04>>,
     <<"system-product-name", 1, \h05>>,
     <<"system-version", 1, \h06>>,
     <<"system-serial-number", 1, \h07>>,
     <<"system-uuid", 1, \h08>>,
     <<"system-sku-number", 1, \h19>>,
     <<"system-family", 1, \h1A>>,
     <<"baseboard-manufacturer", 2, \h04>>,
     <<"baseboard-product-name", 2, \h05>>,
     <<"baseboard-version", 2, \h06>>,
     <<"baseboard-serial-number", 2, \h07>>,
     <<"baseboard-asset-tag", 2, \h08>>,
     <<"chassis-manufacturer", 3, \h04>>,
     <<"chassis-type", 3, \h05>>,
     <<"chassis-version", 3, \h06>>,
     <<"chassis-serial-number", 3, \h07>>,
     <<"chassis-asset-tag", 3, \h08>>,
     <<"processor-family", 4, \h06>>,
     <<"processor-manufacturer", 4, \h07>>,
     <<"processor-version", 4, \h10>>,
     <<"processor-frequency", 4, \h16>> >>

\* what opt.string can point to: an entry of opt_string_keyword
\* (parse_opt_string), or opt_oem_string_keyword with the string number as
\* its offset (parse_opt_oem_string)
StringKeywords ==
  { [type |-> opt_string_keyword[k][2], offset |-> opt_string_keyword[k][3]] :
      k \in 1..Len(opt_string_keyword) }
    \cup { [type |-> 11, offset |-> n] : n \in 0..3 }

\* dmi_system_uuid(NULL, NULL, data + p, ver): the bytes in the order printed
dmi_system_uuid(p, v) ==
  LET b == [k \in 0..15 |-> B(p + k)]
  IN [reads |-> p..(p + 15),
      calls |-> << IF \A k \in 0..15 : b[k] = \hFF
                   THEN printf("Not Present\n", <<>>)
                   ELSE IF \A k \in 0..15 : b[k] = \h00
                   THEN printf("Not Settable\n", <<>>)
                   ELSE IF v >= \h0206
                   THEN printf("%02x%02x%02x%02x-%02x%02x-%02x%02x-%02x%02x-%02x%02x%02x%02x%02x%02x\n",
                               <<b[3], b[2], b[1], b[0], b[5], b[4], b[7], b[6],
                                 b[8], b[9], b[10], b[11], b[12], b[13], b[14], b[15]>>)
                   ELSE printf("%02x%02x%02x%02x-%02x%02x-%02x%02x-%02x%02x-%02x%02x%02x%02x%02x%02x\n",
                               <<b[0], b[1], b[2], b[3], b[4], b[5], b[6], b[7],
                                 b[8], b[9], b[10], b[11], b[12], b[13], b[14], b[15]>>) >>]

\* dmi_processor_frequency(NULL, data + p)
dmi_processor_frequency(p) ==
  [reads |-> WORD(p),
   calls |-> << IF B(p) + 256 * B(p + 1) # 0
                THEN printf("%u MHz\n", <<B(p) + 256 * B(p + 1)>>)
                ELSE printf("Unknown\n", <<>>) >>]

\* if (offset >= h->length) return;
OffsetBeyondLength(h, offset) ==
  offset >= h.length

\* dmi_table_string(h, data, ver), data at offset 0
dmi_table_string(h, v) ==
  LET offset  == opt.string[1].offset
      key     == opt.string[1].type * 256 + offset
      nothing == [reads |-> {}, calls |-> <<>>, buf |-> buf]
      \* printf("%s\n", dmi_string(h, s)): the text printed and the table
      \* bytes the ASCII filter leaves
      PrintString(hh, s) ==
        LET r == dmi_string(0, hh, s)
        IN [calls |-> <<printf("%s\n", IF r.ptr = "bp" THEN CStr(r.buf, r.at) ELSE r.ptr)>>,
            buf   |-> r.buf]
      revision == [reads |-> {key - 1} \cup (IF B(key - 1) # \hFF THEN {key} ELSE {}),
                   calls |-> IF B(key - 1) # \hFF /\ B(key) # \hFF
                             THEN <<printf("%u.%u\n", <<B(key - 1), B(key)>>)>>
                             ELSE <<>>,
                   buf   |-> buf]
  IN IF opt.string[1].type = 11
     THEN IF h.length < 5
          THEN [nothing EXCEPT !.calls = <<printf("No OEM string number %u\n", <<offset>>)>>]
          ELSE IF offset > B(4)
          THEN [nothing EXCEPT !.reads = {4},
                  !.calls = <<printf("No OEM string number %u\n", <<offset>>)>>]
          ELSE IF offset # 0
          THEN [reads |-> {4}, calls |-> PrintString(h, offset).calls,
                buf |-> PrintString(h, offset).buf]
          ELSE [nothing EXCEPT !.reads = {4}, !.calls = <<printf("%u\n", <<B(4)>>)>>]
     ELSE IF OffsetBeyondLength(h, offset)
     THEN nothing
     ELSE CASE key = \h015 -> revision
            [] key = \h017 -> revision
            [] key = \h108 ->
                 [nothing EXCEPT !.reads = dmi_system_uuid(offset, v).reads,
                                 !.calls = dmi_system_uuid(offset, v).calls]
            [] key = \h305 ->
                 [nothing EXCEPT !.reads = {offset},
                    !.calls = <<printf("%s\n", <<"dmi_chassis_type", B(offset)>>)>>]
            [] key = \h406 ->
                 [nothing EXCEPT !.reads = dmi_processor_family(h, v).reads,
                    !.calls = <<printf("%s\n", dmi_processor_family(h, v).name)>>]
            [] key = \h416 ->
                 [nothing EXCEPT !.reads = dmi_processor_frequency(offset).reads,
                                 !.calls = dmi_processor_frequency(offset).calls]
            [] OTHER ->
                 [reads |-> {offset}, calls |-> PrintString(h, B(offset)).calls,
                  buf |-> PrintString(h, B(offset)).buf]

\* a record of type t and declared length L whose data bytes all hold f,
\* its string area (two strings), and the bytes that follow it in the table
StringRecord(t, L, f) ==
  [k \in 1..L |-> CASE k = 1 -> t [] k = 2 -> L [] k \in {3, 4} -> 0 [] OTHER -> f]
    \o <<65, 0, 200, 0, 0>> \o [k \in 1..24 |-> f]

TableStringInit ==
  /\ \E kw \in StringKeywords, L \in 4..MaxDecLen, f \in {0, 1, 2, 255} :
       /\ buf = StringRecord(kw.type, L, f)
       /\ opt = [flags |-> {"FLAG_QUIET"}, type |-> NULL, handle |-> NoHandle,
                 string |-> <<kw>>]
  /\ verArg \in {\h0205, \h0206}
  /\ pc = "dmi_table_string"
  /\ reads = {}
  /\ out = <<>>
  /\ num = 0 /\ flags = {} /\ i = 0 /\ data = 0
  /\ vendor = NULL /\ log = <<>>
  /\ StrIdle /\ MainIdle /\ EpIdle /\ SizeIdle

DmiTableStringCall ==
  /\ pc = "dmi_table_string"
  /\ LET r == dmi_table_string(to_dmi_header(0), verArg)
     IN /\ reads' = r.reads
        /\ out' = r.calls
        /\ buf' = r.buf
  /\ pc' = "string_printed"
  /\ UNCHANGED <<num, flags, opt, i, data, vendor, log, verArg, strVars, mainVars, epVars, sizeVars>>

TableStringNext ==
  DmiTableStringCall

SpecTableString == TableStringInit /\ [][TableStringNext]_vars

(***************************************************************************)
(* dmi_dump(h).  One action for the "Header and Data" list and the test    *)
(* for a string area, then one action per iteration of                     *)
(*   i = 1; while ((s = _dmi_string(h, i++, !(opt.flags & FLAG_DUMP))))    *)
(* where i is an int and the parameter s of _dmi_string is a u8.           *)
(***************************************************************************)
MaxDump == 520     \* iterations of the string loop of dmi_dump that are followed

\* the rows of at most 16 bytes of the n bytes at offset o
DumpRows(o, n) ==
  [row \in 1..(((n - 1) \div 16) + 1) |->
     <<"pr_list_item", "raw_data",
       [j \in 1..(IF n - (row - 1) * 16 < 16 THEN n - (row - 1) * 16 ELSE 16) |->
          B(o + (row - 1) * 16 + j - 1)]>>]

\* the int i converted to the u8 parameter s
AsU8(n) ==
  n % 256

\* a record of declared length L whose string area holds n one-byte
\* strings, the second of them a control byte
DumpRecord(L, n) ==
  <<0, L, 0, 0>> \o [k \in 1..(L - 4) |-> k]
    \o (IF n = 0 THEN <<0, 0>>
        ELSE [k \in 1..(2 * n + 1) |->
                IF k % 2 = 0 \/ k = 2 * n + 1 THEN 0
                ELSE IF k = 3 THEN 7 ELSE 65 + (k % 23)])

DumpInit ==
  /\ \E L \in {4, 20}, n \in {0, 1, 2, 3, 254, 255, 256} : buf = DumpRecord(L, n)
  /\ opt \in { [flags |-> f, type |-> NULL, handle |-> NoHandle, string |-> NULL] :
                 f \in {{}, {"FLAG_DUMP"}} }
  /\ pc = "dmi_dump"
  /\ out = <<>>
  /\ num = 0 /\ flags = {} /\ i = 0 /\ data = 0
  /\ vendor = NULL /\ log = <<>>
  /\ StrIdle /\ DecIdle /\ MainIdle /\ EpIdle /\ SizeIdle

DmiDumpHeader ==
  /\ pc = "dmi_dump"
  /\ LET h == to_dmi_header(0)
         strings == B(h.length) # 0 \/ B(h.length + 1) # 0
     IN /\ out' = <<pr_list_start("Header and Data")>> \o DumpRows(0, h.length)
                    \o <<pr_list_end>>
                    \o (IF strings THEN <<pr_list_start("Strings")>> ELSE <<>>)
        /\ pc' = IF strings THEN "dmi_dump_strings" ELSE "dumped"
        /\ i' = IF strings THEN 1 ELSE i
  /\ UNCHANGED <<buf, num, flags, opt, data, vendor, log, strVars, decVars, mainVars, epVars, sizeVars>>

DmiDumpString ==
  /\ pc = "dmi_dump_strings"
  /\ i < MaxDump
  /\ LET h == to_dmi_header(0)
         s == _dmi_string(0, h, AsU8(i))
     IN /\ i' = i + 1
        /\ IF s = NULL
           THEN /\ out' = Append(out, pr_list_end)
                /\ pc' = "dumped"
                /\ UNCHANGED buf
           ELSE /\ out' = out
                     \o (IF "FLAG_DUMP" \in opt.flags
                         THEN DumpRows(s[1], ScanZero(s[1]) - s[1] + 1) ELSE <<>>)
                     \o <<<<"pr_list_item", "%s", s[1]>>>>
                \* filtered by _dmi_string, or after the rows by dmi_dump itself
                /\ buf' = ascii_filter(buf, s[1])
                /\ UNCHANGED pc
  /\ UNCHANGED <<num, flags, opt, data, vendor, log, strVars, decVars, mainVars, epVars, sizeVars>>

DumpNext ==
  \/ DmiDumpHeader
  \/ DmiDumpString

SpecDump == DumpInit /\ [][DumpNext]_vars

(***************************************************************************)
(* Properties of the table walker                                          *)
(***************************************************************************)
Min(S) == CHOOSE x \in S : \A y \in S : x <= y

\* the double zeros at or after the end of the fixed area of the record at o
\* that lie inside the table
Terminators(o, L) ==
  { k \in (o + L)..(len - 2) : B(k) = 0 /\ B(k + 1) = 0 }

Emitted(e) == { e.emit[k][1] : k \in 1..Len(e.emit) }

Decoders == {"dmi_decode", "dmi_dump", "dmi_table_string"}

\* C1: in pass 2, a record at offset o of declared length L >= 4 whose
\* terminator lies inside the table is followed by a record taken at k + 2,
\* k the first double zero at or after o + L (o + L + 2 when the string area
\* is empty), displayed or not: the record visited next starts there, and
\* whenever the scan ran the walker's data is left there.
C1_NextRecordStart ==
  \A j \in 1..Len(log) :
    LET e == log[j]
        T == Terminators(e.at, e.length)
    IN (e.length >= 4 /\ T # {}) =>
         /\ (j < Len(log) => log[j + 1].at = Min(T) + 2)
         /\ (e.next # -1 => e.data = Min(T) + 2)
         /\ ((e.next # -1 /\ e.at + e.length \in T) => e.data = e.at + e.length + 2)

\* a record that is not displayed, has a zero pair inside its fixed area and
\* a string, and is followed by another record
C1_Witness ==
  \E j \in 1..Len(log) :
    /\ j < Len(log)
    /\ ~log[j].display
    /\ log[j].length = 6
    /\ Terminators(log[j].at, 4) # Terminators(log[j].at, 6)
    /\ Min(Terminators(log[j].at, 6)) > log[j].at + 6

\* C2: in pass 2, a record of declared length >= 4 whose computed end
\* exceeds the table length is passed to no decoder, gets the <TRUNCATED>
\* marker when displayed with quiet mode off, and is the last record visited.
C2_Truncated ==
  \A j \in 1..Len(log) :
    LET e == log[j]
    IN (e.length >= 4 /\ e.next > len) =>
         /\ Emitted(e) \cap Decoders = {}
         /\ ((e.display /\ ~e.quiet) => "<TRUNCATED>" \in Emitted(e))
         /\ j = Len(log)
         /\ pc \in {"post", "done"}

\* a truncated record, displayed with quiet mode off, after an earlier
\* record that was decoded, with bytes of the table left after its header
C2_Witness ==
  /\ Len(log) = 2
  /\ "dmi_decode" \in Emitted(log[1])
  /\ log[2].length >= 4 /\ log[2].next > len
  /\ log[2].display /\ ~log[2].quiet
  /\ log[2].at + 4 < len

\* C3: a record of declared length below 4 stops the walker at once, in
\* either pass: nothing is decoded from it or after it, pass 2 prints the
\* 'Invalid entry length' diagnostic exactly when quiet mode is off, and the
\* output produced before stays as it was.
C3_ShortEntryStops ==
  [][ /\ (pc = "pass1" /\ LoopCond /\ to_dmi_header(data).length < 4)
        => (pc' = "pass2" /\ out' = out /\ vendor' = vendor)
      /\ (pc = "pass2" /\ LoopCond /\ to_dmi_header(data).length < 4)
        => /\ pc' = "post"
           /\ out' = IF quiet THEN out
                     ELSE Append(out, <<"Invalid entry length", data,
                                        to_dmi_header(data).length>>)
      /\ (pc \in {"post", "done"})
        => (pc' # "pass2" /\ log' = log /\ SubSeq(out', 1, Len(out)) = out
            /\ \A k \in (Len(out) + 1)..Len(out') : out'[k][1] \notin Decoders) ]_vars

\* pass 2 stopped at a short record with quiet mode off after decoding an
\* earlier record
C3_Witness ==
  /\ Len(log) = 2
  /\ "dmi_decode" \in Emitted(log[1])
  /\ log[2].length < 4 /\ ~log[2].quiet
  /\ pc = "done"

\* C4: with FLAG_STOP_AT_EOT (smbios3_decode always passes it) pass 2
\* decodes the first type-127 record (when it is displayed and fits) and
\* visits no record after it; in quiet mode pass 2 stops at a type-127
\* record and emits nothing for it.
C4_StopAtEndOfTable ==
  \A j \in 1..Len(log) :
    LET e == log[j]
    IN e.type = 127 =>
         /\ ("FLAG_STOP_AT_EOT" \in flags \/ e.quiet)
              => (j = Len(log) /\ pc \in {"post", "done"})
         /\ ("FLAG_STOP_AT_EOT" \in flags /\ ~e.quiet /\ e.display
               /\ e.length >= 4 /\ e.next <= len)
              => Emitted(e) \cap {"dmi_decode", "dmi_dump"} # {}
         /\ e.quiet => (e.emit = <<>> /\ ~e.display)

\* a decoded end-of-table record with a whole record left after it
C4_Witness ==
  /\ "FLAG_STOP_AT_EOT" \in flags
  /\ pc = "done"
  /\ Len(log) = 1
  /\ log[1].type = 127
  /\ "dmi_decode" \in Emitted(log[1])
  /\ log[1].data + 6 <= len

\* quiet mode: pass 2 stopped at an end-of-table record with bytes left
C4_WitnessQuiet ==
  /\ pc = "done"
  /\ Len(log) = 2
  /\ log[2].type = 127 /\ log[2].quiet
  /\ log[2].at + 6 <= len

(***************************************************************************)
(* Properties of dmi_string                                                *)
(***************************************************************************)
\* the non-empty strings of the string area starting at offset o of b, in
\* order, up to its terminating empty string
RECURSIVE AreaStrings(_, _)
AreaStrings(b, o) ==
  IF b[o + 1] = 0 THEN <<>>
  ELSE <<CStr(b, o)>> \o AreaStrings(b, o + Len(CStr(b, o)) + 1)

Filtered(str) == [k \in 1..Len(str) |-> FilterByte(str[k])]

\* C5: dmi_string has three disjoint outcomes: "Not Specified" for s = 0
\* whatever the bytes; for s >= 1 with at least s strings in the string area
\* a pointer to the s-th string (its bytes passed through the ASCII filter);
\* otherwise the "<BAD INDEX>" sentinel, which differs from "Not Specified".
C5_DmiStringOutcomes ==
  (pc = "returned") =>
    LET r    == ret[1]
        strs == AreaStrings(r.before, r.before[2])
    IN /\ bad_index # NotSpecified
       /\ (sArg = 0) => (r.ptr = NotSpecified /\ buf = r.before)
       /\ (sArg >= 1 /\ Len(strs) >= sArg) =>
            /\ r.ptr = "bp"
            /\ CStr(buf, r.at) = Filtered(strs[sArg])
            /\ AreaStrings(buf, buf[2]) = [strs EXCEPT ![sArg] = Filtered(@)]
       /\ (sArg >= 1 /\ Len(strs) < sArg) => (r.ptr = bad_index /\ buf = r.before)

\* the second of two strings was returned, with a byte filtered
C5_WitnessString ==
  /\ pc = "returned" /\ sArg = 2
  /\ ret[1].ptr = "bp"
  /\ buf # ret[1].before

\* an index one past the strings of a non-empty string area
C5_WitnessBadIndex ==
  /\ pc = "returned" /\ sArg = 3
  /\ Len(AreaStrings(buf, buf[2])) = 2
  /\ ret[1].ptr = bad_index

\* index 0 on a record that has strings
C5_WitnessZero ==
  /\ pc = "returned" /\ sArg = 0
  /\ Len(AreaStrings(buf, buf[2])) = 2
  /\ ret[1].ptr = NotSpecified

(***************************************************************************)
(* Properties of dmi_decode                                                *)
(***************************************************************************)
\* C6: for every structure type and every declared length L >= 4,
\* dmi_decode reads no byte of the record at an offset >= L: a field is
\* read (and printed) only if all of its bytes lie below L.
C6_NoReadBeyondLength ==
  (pc = "decoded") => \A k \in reads : k < B(1)

\* the sink calls cs from the k-th on keep the list discipline, given
\* whether a list is open before the k-th
RECURSIVE ListsNested(_, _, _)
ListsNested(cs, k, open) ==
  IF k > Len(cs) THEN ~open
  ELSE CASE cs[k][1] = "pr_list_start" -> ~open /\ ListsNested(cs, k + 1, TRUE)
         [] cs[k][1] = "pr_list_item" -> open /\ ListsNested(cs, k + 1, TRUE)
         [] cs[k][1] = "pr_list_end" -> open /\ ListsNested(cs, k + 1, FALSE)
         [] OTHER -> ~open /\ ListsNested(cs, k + 1, FALSE)

\* C7: in every decode of every record, each pr_list_item call comes after
\* a pr_list_start and before the matching pr_list_end, and every opened
\* list is closed before the next attribute is emitted.
C7_ListNesting ==
  (pc = "decoded") => ListsNested(out, 1, FALSE)

(***************************************************************************)
(* Properties of main's search                                             *)
(***************************************************************************)
NotFoundText == "No SMBIOS nor DMI entry point found, sorry."
Reported == \E k \in 1..Len(out) : out[k] = pr_comment(NotFoundText)
Tried(src) == \E k \in 1..Len(tried) : tried[k] = src
Rejected(src) ==
  \E k \in 1..Len(probes) : probes[k].source = src /\ ~probes[k].accepted
Accepted(src) ==
  \E k \in 1..Len(probes) : probes[k].source = src /\ probes[k].accepted
\* the slots of the scanned memory whose anchor a scan loop hands to a decoder
Decodable ==
  { o \in 0..(MemSlots - 1) :
      \/ env.mem[1][o + 1].anchor = "_DMI_"
      \/ (env.mem[1][o + 1].anchor \in {"_SM3_", "_SM_"} /\ o <= MemSlots - 2) }
ProbedAt(o) ==
  \E k \in 1..Len(probes) : probes[k].source = "memory_scan" /\ probes[k].at = o

C8_WitnessEfiRejected ==
  /\ pc = "exit"
  /\ Rejected("efi") /\ Reported
  /\ env.x86 /\ env.mem # NULL
  /\ env.mem[1][1] = [anchor |-> "_SM_", valid |-> TRUE]

\* C9: when no recognizable, valid entry point is found in any tried
\* source, the condition is reported and main returns a non-zero exit
\* status.
C9_NotFoundExitsNonZero ==
  (pc = "exit" /\ found = 0) =>
    /\ mainRet # 0
    /\ Reported \/ quiet \/ mainRet = 1

\* C10: first success wins: at most one entry point is accepted and
\* dmi_table is called at most once; the accepted candidate is the last one
\* probed and its source the last one consulted, so no later source or scan
\* offset is probed after it.
C10_FirstSuccessWins ==
  /\ found <= 1 /\ tables <= 1 /\ tables = found
  /\ (found = 1) <=> (\E k \in 1..Len(probes) : probes[k].accepted)
  /\ \A k \in 1..Len(probes) :
       probes[k].accepted =>
         (k = Len(probes) /\ tried[Len(tried)] = probes[k].source)

\* the scan accepted the entry point of the first slot and left the valid
\* anchor of the next slot alone
C10_Witness ==
  /\ pc = "exit"
  /\ found = 1 /\ tables = 1
  /\ Accepted("memory_scan") /\ ProbedAt(0) /\ ~ProbedAt(1)
  /\ env.mem[1][2] = [anchor |-> "_DMI_", valid |-> TRUE]

(***************************************************************************)
(* Properties of the entry point decoders                                  *)
(***************************************************************************)
\* the decoder that produced res
Ran == IF pc = "read_back" THEN DumpDecoder(buf) ELSE decoder
\* the offset of the declared length, or -1
LengthAt(d) ==
  CASE d = "smbios3_decode" -> 6
    [] d = "smbios_decode" -> 5
    [] OTHER -> 0 - 1

\* C11: smbios_decode succeeds iff the declared length is <= 0x20, the
\* bytes over the declared length sum to 0 mod 256, bytes 0x10..0x14 are
\* "_DMI_" and the 15 bytes from 0x10 sum to 0 mod 256; smbios3_decode iff
\* the declared length is <= 0x20, the bytes over it sum to 0 mod 256 and
\* the address fits the address type; legacy_decode iff its 15 bytes sum to
\* 0 mod 256.  An oversized length is rejected before any checksum is
\* computed, and dmi_table is called iff the entry point is accepted.
\* "_DMI_" is the five characters as firmware writes them, one byte each.
C11_EntryPointAcceptance ==
  (res # NULL /\ Ran # "") =>
    LET r == res[1]
        L == At(buf, LengthAt(Ran))
    IN /\ (Ran = "smbios_decode") =>
            /\ (r.ret = 1) <=>
                 /\ L <= 32
                 /\ ByteSum(buf, 0, L) = 0
                 /\ SubSeq(buf, 17, 21) = DMI
                 /\ ByteSum(buf, 16, 15) = 0
            /\ (L > 32) => r.sums = <<>>
       /\ (Ran = "smbios3_decode") =>
            /\ (r.ret = 1) <=>
                 /\ L <= 32
                 /\ ByteSum(buf, 0, L) = 0
                 /\ \/ "FLAG_NO_FILE_OFFSET" \in flags
                    \/ SubSeq(buf, 21, 24) = <<0, 0, 0, 0>>
                    \/ wide
            /\ (L > 32) => r.sums = <<>>
       /\ (Ran = "legacy_decode") =>
            ((r.ret = 1) <=> ByteSum(buf, 0, 15) = 0)
       /\ r.ret \in {0, 1}
       /\ (r.ret = 0) <=> (r.table = NULL)
       /\ (r.ret = 0) => (r.written = NULL)

\* C12 as stated: for every accepted entry point, changing any single byte
\* of the checksummed region to a different value makes the same decoder
\* reject it, without decoding a table.
C12_AnyByteChangeRejects ==
  (pc = "mutated") => (res[1].ret = 0 /\ res[1].table = NULL)

\* C12 as amended: for every accepted entry point, changing any single byte
\* of the checksummed region other than the declared-length byte to a
\* different value makes the same decoder reject it, without decoding a
\* table.
C12_ByteChangeRejects ==
  (pc = "mutated" /\ prev[1].at # LengthAt(decoder)) =>
    (res[1].ret = 0 /\ res[1].table = NULL)

\* an accepted 64-bit entry point is rejected after a change of an address
\* byte
C12_Witness ==
  /\ pc = "mutated" /\ decoder = "smbios3_decode"
  /\ prev[1].res.ret = 1
  /\ prev[1].at = 16
  /\ At(buf, 16) # At(prev[1].buf, 16)
  /\ res[1].ret = 0

\* C13: for every accepted entry point, the crafted copy written to the
\* dump file is accepted by the same decoder when read back, announces
\* table address 32 with unchanged version, table length and structure
\* count, and differs from the original only in the address field and the
\* adjusted checksum byte.
C13_DumpRoundTrip ==
  (pc = "read_back") =>
    LET r == res[1]
        o == prev[1]
        n == Len(o.res.written[1])
        base == IF decoder = "smbios3_decode" THEN 16
                ELSE IF decoder = "smbios_decode" THEN 24 ELSE 8
        ck == IF decoder = "smbios_decode" THEN 21 ELSE 5
        adr == IF decoder = "smbios3_decode" THEN base..(base + 7) ELSE base..(base + 3)
    IN /\ Ran = decoder
       /\ r.ret = 1
       /\ r.table # NULL
       /\ r.table[1].base \in {<<32, 0, 0, 0>>, <<32, 0, 0, 0, 0, 0, 0, 0>>}
       /\ r.table[1].ver = o.res.table[1].ver
       /\ r.table[1].len = o.res.table[1].len
       /\ r.table[1].num = o.res.table[1].num
       /\ \A k \in 0..(n - 1) :
            (k \notin adr \cup {ck}) => At(buf, k) = At(o.buf, k)

(***************************************************************************)
(* Properties of the post-walk check                                       *)
(***************************************************************************)
\* what the iterations of pass 2 emitted, in order
RECURSIVE Pass2Output(_)
Pass2Output(l) ==
  IF l = <<>> THEN <<>> ELSE Pass2Output(SubSeq(l, 1, Len(l) - 1)) \o l[Len(l)].emit

\* pass 2 stopped at a record of declared length < 4
StoppedShort == log # <<>> /\ log[Len(log)].brk = "short"

\* the user requested quiet mode: FLAG_QUIET as it was when the walk began
UserQuiet == IF StoppedShort THEN log[Len(log)].quiet ELSE quiet

\* the diagnostics the claim describes, for the records walked
Diagnostics ==
  (IF num # 0 /\ i # num
   THEN <<<<"Wrong DMI structures count", i, num>>>> ELSE <<>>)
  \o (IF data > len \/ (num # 0 /\ data < len)
      THEN <<<<"Wrong DMI structures length", data, len>>>> ELSE <<>>)

\* C14 as stated: when the user did not request quiet mode, the post-walk
\* check always runs after pass 2: the wrong-count diagnostic is emitted if
\* the declared count is non-zero and differs from the number of records
\* walked, the wrong-length diagnostic if the consumed bytes exceed the
\* table length (or fall short of it while the declared count is non-zero);
\* the output already produced is unchanged.
C14_PostWalkAlwaysRuns ==
  (pc = "done" /\ ~UserQuiet) => out = Pass2Output(log) \o Diagnostics

\* C14 as amended: when the user did not request quiet mode and pass 2 did
\* not stop at a record of declared length < 4 (which switches quiet mode
\* on), the post-walk check runs after pass 2 and emits exactly the
\* diagnostics described; in every case the output already produced is
\* unchanged.
C14_PostWalkDiagnostics ==
  (pc = "done") =>
    /\ (~UserQuiet /\ ~StoppedShort) => out = Pass2Output(log) \o Diagnostics
    /\ \E d \in {<<>>, Diagnostics} : out = Pass2Output(log) \o d

\* a walk that ends with both diagnostics after output of pass 2
C14_Witness ==
  /\ pc = "done" /\ ~UserQuiet /\ ~StoppedShort
  /\ Pass2Output(log) # <<>>
  /\ Len(Diagnostics) = 2
  /\ out = Pass2Output(log) \o Diagnostics

\* a walk that stops at a short record with a count mismatch and no
\* diagnostic
C14_WitnessShort ==
  /\ pc = "done" /\ ~UserQuiet /\ StoppedShort
  /\ Diagnostics # <<>>
  /\ out = Pass2Output(log)

(***************************************************************************)
(* Properties of the vendor state                                          *)
(***************************************************************************)
\* C15: dmi_set_vendor is called only in pass 1 and at most once, before
\* any record is dispatched in pass 2, and pass 1 stops there; it is called
\* for the first record of type 1 with declared length >= 6, which fits in
\* the buffer: every record that pass 2 visits before it is not of type 1
\* with declared length >= 6.
C15_VendorSetOnce ==
  [][ /\ (vendor' # vendor) =>
           /\ pc = "pass1" /\ pc' = "pass2"
           /\ vendor = NULL /\ vendor' # NULL
           /\ out = <<>> /\ log = <<>>
           /\ LET h == to_dmi_header(vendor'[1].at)
              IN /\ vendor'[1].at = data
                 /\ h.type = 1 /\ h.length >= 6
                 /\ NextHandle(data, h) <= len
      /\ (log' # log /\ vendor # NULL) =>
           LET e == log'[Len(log')]
           IN /\ (e.at < vendor[1].at) => ~(e.type = 1 /\ e.length >= 6)
              /\ (e.at = vendor[1].at) =>
                   (e.type = 1 /\ e.length >= 6 /\ e.next <= len) ]_vars

\* the vendor was taken from the second record, after a System Information
\* record too short to name it, and pass 2 has decoded both
C15_Witness ==
  /\ vendor # NULL /\ vendor[1].at > 0
  /\ Len(log) = 2
  /\ log[1].type = 1 /\ log[1].length = 5
  /\ log[2].at = vendor[1].at
  /\ "dmi_decode" \in Emitted(log[2])

(***************************************************************************)
(* Properties of dmi_print_memory_size                                     *)
(***************************************************************************)
\* the 10-bit groups (0..6) of the u64 c that are not zero
NonZeroGroups(c) ==
  { k \in 0..6 : \E j \in (10 * k)..(10 * k + 9) : j <= 63 /\ BitOf(c, j) = 1 }

\* at most two groups are non-zero, and two are adjacent
Representable(c) ==
  LET nz == NonZeroGroups(c)
  IN \/ Cardinality(nz) <= 1
     \/ Cardinality(nz) = 2 /\ \E k \in nz : k + 1 \in nz

\* bit j of the natural number n < 2^20
BitOfNumber(n, j) == IF j < 0 \/ j > 19 THEN 0 ELSE (n \div Pow2(j)) % 2

\* C16: for every 64-bit input in which at most two 10-bit groups are
\* non-zero and those two are adjacent, dmi_print_memory_size prints a
\* number and a unit such that number x 1024^k is the input, k the index of
\* the lowest non-zero group (0 for the input 0), and the unit is entry
\* k + shift of (bytes, kB, MB, GB, TB, PB, EB, ZB).
C16_MemorySizeExact ==
  (pc = "printed" /\ Representable(sizeCode[1])) =>
    LET c == sizeCode[1]
        nz == NonZeroGroups(c)
        k == IF nz = {} THEN 0 ELSE CHOOSE x \in nz : \A y \in nz : x <= y
        number == out[1][3]
    IN /\ Len(out) = 1
       /\ out[1][4] = <<"bytes", "kB", "MB", "GB", "TB", "PB", "EB", "ZB">>[k + shift + 1]
       /\ number < Pow2(20)
       /\ \A j \in 0..63 : BitOf(c, j) = BitOfNumber(number, j - 10 * k)

\* 4096 with shift 0 prints 4 kB
C16_Witness ==
  /\ pc = "printed" /\ shift = 0
  /\ sizeCode[1] = <<0, 16, 0, 0, 0, 0, 0, 0>>
  /\ out = <<<<"pr_attr", "%lu %s", 4, "kB">>>>

\* a size with bits on both sides of bit 32, in kilobytes
C16_WitnessAcrossWords ==
  /\ pc = "printed" /\ shift = 1
  /\ NonZeroGroups(sizeCode[1]) = {3, 4}
  /\ Lo(sizeCode[1])[4] >= 64 /\ Hi(sizeCode[1])[1] % 4 # 0
  /\ out[1][4] = "TB"

(***************************************************************************)
(* Properties of the version handed to the walker                          *)
(***************************************************************************)
\* the version a 32-bit entry point reports: (buf[0x06] << 8) + buf[0x07]
ReportedVersion == At(buf, 6) * 256 + At(buf, 7)

\* the version dmi_table hands to dmi_table_decode: ver >> 8
WalkerVersion == res[1].table[1].ver \div 256

\* smbios_decode accepted the entry point in buf
SmbiosAccepted ==
  /\ pc \in {"decoded_entry", "mutated", "read_back"}
  /\ Ran = "smbios_decode"
  /\ res[1].ret = 1

\* C17 as stated: for a 32-bit _SM_ entry point, the version handed to the
\* table walker is the reported major.minor, except that a reported 2.31
\* (0x021F) becomes 2.3 and a reported 2.51 (0x0233) becomes 2.6; no other
\* reported version is altered.
C17_TwoVersionsNormalized ==
  SmbiosAccepted =>
    WalkerVersion = (CASE ReportedVersion = 543 -> 515
                       [] ReportedVersion = 563 -> 518
                       [] OTHER -> ReportedVersion)

\* C17 as amended: for a 32-bit _SM_ entry point, the version handed to the
\* table walker is the reported major.minor, except that a reported 2.31
\* (0x021F) and a reported 2.33 (0x0221) become 2.3 and a reported 2.51
\* (0x0233) becomes 2.6; no other reported version is altered.
C17_VersionNormalized ==
  SmbiosAccepted =>
    WalkerVersion = (CASE ReportedVersion = 543 -> 515
                       [] ReportedVersion = 545 -> 515
                       [] ReportedVersion = 563 -> 518
                       [] OTHER -> ReportedVersion)

\* an accepted entry point that reports 2.51, handed on as 2.6
C17_Witness ==
  /\ SmbiosAccepted /\ pc = "decoded_entry"
  /\ ReportedVersion = 563
  /\ WalkerVersion = 518

\* an accepted entry point that reports 2.7, handed on as it is
C17_WitnessUnaltered ==
  /\ SmbiosAccepted /\ pc = "decoded_entry"
  /\ ReportedVersion = 519
  /\ WalkerVersion = 519

(***************************************************************************)
(* Properties of the BIOS characteristics                                  *)
(***************************************************************************)
\* a BIOS Information record long enough to hold the characteristics, with
\* bit 3 of the 64-bit field at 0x0A set, has been decoded
Bit3Decoded ==
  /\ pc = "decoded"
  /\ B(0) = 0 /\ B(1) >= 18
  /\ Bit(B(10), 3)

SentinelDecoded ==
  /\ pc = "decoded"
  /\ B(0) = 16 /\ B(1) >= 15
  /\ B(7) = 0 /\ B(8) = 0 /\ B(9) = 0 /\ B(10) = 128

\* the Maximum Capacity attributes printed
MaximumCapacity ==
  { k \in 1..Len(out) : out[k][1] = "pr_attr" /\ out[k][2] = "Maximum Capacity" }

\* C19: for a Physical Memory Array record (type 16, length >= 0x0F) whose
\* maximum-capacity DWORD at 0x07 is 0x80000000: if the declared length is
\* below 0x17, 'Maximum Capacity: Unknown' is printed and no byte of
\* 0x0F..0x16 is read; if it is at least 0x17, the 64-bit extended capacity
\* at 0x0F..0x16 is read and printed.
C19_ExtendedCapacity ==
  SentinelDecoded =>
    /\ Cardinality(MaximumCapacity) = 1
    /\ \A k \in MaximumCapacity :
         IF B(1) < 23
         THEN /\ out[k] = <<"pr_attr", "Maximum Capacity", "Unknown">>
              /\ reads \cap (15..22) = {}
         ELSE /\ (15..22) \subseteq reads
              /\ out[k] = <<"pr_attr", "Maximum Capacity",
                            CASE B(20) = 1 -> <<1, "TB">>
                              [] B(20) = 0 /\ B(16) = 16 -> <<4, "kB">>
                              [] OTHER -> <<0, "bytes">> >>

\* a record of length 0x16 with the sentinel and a non-zero byte where the
\* extended capacity would be: Unknown is printed
C19_Witness ==
  /\ SentinelDecoded
  /\ B(1) = 22 /\ B(16) = 16
  /\ <<"pr_attr", "Maximum Capacity", "Unknown">> \in {out[k] : k \in 1..Len(out)}
  /\ reads \cap (15..22) = {}

\* a record of length 0x17 with the sentinel: the extended capacity is
\* printed
C19_WitnessExtended ==
  /\ SentinelDecoded
  /\ B(1) = 23 /\ B(16) = 16 /\ B(20) = 0
  /\ <<"pr_attr", "Maximum Capacity", <<4, "kB">>>> \in {out[k] : k \in 1..Len(out)}

(***************************************************************************)
(* Properties of the count-driven trailing arrays                          *)
(***************************************************************************)
\* where the array of a record of type t starts, the size of an element and
\* the count, as the record in buf declares them
ArrayBase(t) == CASE t = 2 -> 15 [] t = 3 -> 21 [] t = 37 -> 7
ArraySize(t) == CASE t = 2 -> 2 [] t = 3 -> B(20) [] t = 37 -> 3
ArrayCount(t) == CASE t = 2 -> B(14) [] t = 3 -> B(19) [] t = 37 -> B(6)

\* the offsets read at or after the start of the array, without the field
\* that follows the array of a Chassis Information record (its SKU number)
ArrayReads(t) ==
  { k \in reads : k >= ArrayBase(t) }
    \ (IF t = 3 THEN {ArrayBase(t) + ArrayCount(t) * ArraySize(t)} ELSE {})

\* C20: for the structure types with a count-driven trailing array (here
\* base board handles type 2, chassis elements type 3, memory channel
\* devices type 37), the array is iterated only when count x element size
\* fits within the declared length, and element i (1-based) is read from
\* offsets base + (i-1) x size .. base + i x size - 1, all of which are
\* below the declared length: every offset read in the array lies in the
\* elements 1..count and below the declared length, and element 1 is read
\* from base.
C20_ArrayWithinLength ==
  (pc = "decoded" /\ B(0) \in {2, 3, 37} /\ B(1) >= ArrayBase(B(0))) =>
    LET t == B(0)
        end == ArrayBase(t) + ArrayCount(t) * ArraySize(t)
    IN /\ (ArrayReads(t) # {}) => end <= B(1)
       /\ \A k \in ArrayReads(t) : k < end /\ k < B(1)
       /\ (ArrayReads(t) # {}) => ArrayBase(t) \in ArrayReads(t)

(***************************************************************************)
(* Properties of dmi_table_string                                          *)
(***************************************************************************)
\* C21: in single-string extraction mode (dmi_table_string), a value is
\* printed only if every byte of the requested field lies at an offset
\* below the record's declared length (the 16-byte UUID at 0x08 and the
\* 2-byte processor frequency at 0x16 both require a length of at least
\* 0x18); no byte at or beyond the declared length of the fixed area is
\* read.
C21_FieldWithinLength ==
  (pc = "string_printed") => \A k \in reads : k < B(1)

(***************************************************************************)
(* Properties of the Management Controller Host Interface                  *)
(***************************************************************************)
\* the calls of out made with the attribute name
CallsNamed(name) ==
  SelectSeq(out, LAMBDA c : Len(c) >= 2 /\ c[2] = name)

\* the offset of protocol record k (from 1) of the record in buf: the first
\* follows the 6 leading bytes, the interface data and the count byte, each
\* next one the 2 leading bytes and the data of the one before
RECURSIVE ProtocolRecordAt(_)
ProtocolRecordAt(k) ==
  IF k = 1 THEN 6 + B(5) + 1
  ELSE ProtocolRecordAt(k - 1) + B(ProtocolRecordAt(k - 1) + 1) + 2

\* the records dmi_parse_protocol_record was invoked on, which are Redfish
\* over IP records long enough to be decoded
RedfishDecoded ==
  SelectSeq([k \in 1..Len(CallsNamed("Protocol ID")) |-> ProtocolRecordAt(k)],
            LAMBDA rec : B(rec) = 4 /\ B(rec + 1) >= 91)

\* C22: for a Management Controller Host Interface record (type 42,
\* version >= 3.2), dmi_parse_protocol_record is invoked on a protocol record
\* only if the cumulative size 6 + interface-data length + 1 + sum of
\* (record length + 2) over all records up to and including it does not
\* exceed the structure's declared length; and inside a Redfish-over-IP
\* record the hostname bytes are printed only if hostname length + 91 does
\* not exceed the record's own length, otherwise the out-of-spec marker is
\* printed.
C22_ProtocolRecordsWithinLength ==
  (pc = "decoded" /\ B(0) = 42 /\ verArg >= \h0302) =>
    /\ \A k \in 1..Len(CallsNamed("Protocol ID")) :
         ProtocolRecordAt(k + 1) <= B(1)
    /\ Len(CallsNamed("Redfish Service Hostname")) = Len(RedfishDecoded)
    /\ \A j \in 1..Len(RedfishDecoded) :
         LET rec  == RedfishDecoded[j]
             hlen == B(rec + 2 + 90)
             name == CallsNamed("Redfish Service Hostname")[j][3]
         IN IF hlen + 91 <= B(rec + 1)
            THEN name = <<"&rdata[91]">> \o [k \in 1..hlen |-> B(rec + 2 + 90 + k)]
            ELSE name = <<out_of_spec>>

\* two Redfish records are decoded: the host name of the first does not fit
\* its record and is replaced by the marker, that of the second is printed;
\* the declared length is exactly what the two records need
C22_Witness ==
  /\ pc = "decoded" /\ B(0) = 42 /\ verArg >= \h0302
  /\ Len(CallsNamed("Protocol ID")) = 2
  /\ ProtocolRecordAt(3) = B(1)
  /\ Len(CallsNamed("Redfish Service Hostname")) = 2
  /\ CallsNamed("Redfish Service Hostname")[1][3] = <<out_of_spec>>
  /\ CallsNamed("Redfish Service Hostname")[2][3] = <<"&rdata[91]", 104, 104>>

(***************************************************************************)
(* Properties of the processor family lookup                               *)
(***************************************************************************)
\* the 16-bit family code of the record in buf: the Processor Family 2 field
\* when the Processor Family byte is 0xFE and the record holds the field,
\* else the Processor Family byte
FamilyCodeOf ==
  IF B(6) = 254 /\ B(1) >= 42 THEN B(40) + 256 * B(41) ELSE B(6)

C23_WitnessOutOfSpec ==
  /\ pc = "named"
  /\ ret[1].searched
  /\ FamilyCodeOf = 65535
  /\ ret[1].name = "<OUT OF SPEC>"

(***************************************************************************)
(* Properties of the type 34 fixup                                         *)
(***************************************************************************)
\* the iteration logged in r found a Management Device record of declared
\* length 0x10 that fits and whose bytes 0x0B..0x0F are printable
Fixable(r) ==
  /\ r.type = 34 /\ r.length = 16
  /\ r.brk # "truncated"
  /\ is_printable(r.at + 11, 16 - 11)

\* C24: a type 34 record of declared length 0x10 whose bytes 0x0B..0x0F are
\* all printable is decoded, dumped or searched with length 0x0B; the fixup
\* notice is printed exactly when the record is displayed and quiet mode is
\* off; the next record starts where the scan from the declared length 0x10
\* ends and the record counts as one
C24_Type34Fixup ==
  \A n \in 1..Len(log) :
    LET r == log[n]
    IN Fixable(r) =>
         /\ \A k \in 1..Len(r.emit) :
              r.emit[k][1] \in {"dmi_decode", "dmi_dump", "dmi_table_string", "pr_sep"}
                => r.emit[k][3] = 11
         /\ r.display =>
              \E k \in 1..Len(r.emit) : r.emit[k][1] \in {"dmi_decode", "dmi_dump"}
         /\ (\E k \in 1..Len(r.emit) : r.emit[k] = <<"fixup", r.at, 16>>)
              <=> (r.display /\ ~r.quiet)
         /\ r.next = ScanNext(r.at + 16) + 2
         /\ r.data = r.next
         /\ r.inc = 1

\* a fixable record is decoded with length 0x0B after the notice, and the
\* record behind it is walked
C24_Witness ==
  \E n \in 1..Len(log) :
    /\ Fixable(log[n])
    /\ \E k \in 1..Len(log[n].emit) :
         /\ log[n].emit[k] = <<"fixup", log[n].at, 16>>
         /\ k < Len(log[n].emit)
         /\ log[n].emit[k + 1] = <<"dmi_decode", log[n].at, 11>>
    /\ n < Len(log)
    /\ log[n + 1].at = log[n].next

\* a fixable record that is not displayed: no notice
C24_WitnessSilent ==
  \E n \in 1..Len(log) :
    /\ Fixable(log[n])
    /\ ~log[n].display
    /\ log[n].emit = <<>>

(***************************************************************************)
(* Properties of the first pass                                            *)
(***************************************************************************)
\* C25: once the second loop has ended, the record the vendor strings were
\* captured from in the first loop lies before the offset at which the
\* second loop stopped
C25_VendorBeforeStop ==
  (pc \in {"post", "done"} /\ vendor # NULL) => vendor[1].at < data

(***************************************************************************)
(* Properties of the walker's reads                                        *)
(***************************************************************************)
\* C26: every offset of buf the two loops of dmi_table_decode read
\* themselves (header, scan for the double zero, the type 1 index bytes and
\* the strings they select, the bytes tested for the type 34 fixup) is
\* below len, and no iteration ends in undefined behaviour
C26_WalkerReadsBelowLen ==
  /\ \A k \in reads : k < len
  /\ pc # "undefined"

\* a walk over a fixable type 34 record and a System Information record has
\* read the fixup bytes, the index bytes and the last byte of the table
C26_Witness ==
  /\ pc = "done"
  /\ Len(log) = 2
  /\ Fixable(log[1])
  /\ (log[1].at + 15) \in reads
  /\ vendor # NULL
  /\ {vendor[1].at + 4, vendor[1].at + 5} \subseteq reads
  /\ (len - 1) \in reads

\* a table cut short has been walked up to its last byte
C26_WitnessCut ==
  /\ pc = "done"
  /\ \E n \in 1..Len(log) : log[n].brk = "truncated"
  /\ (len - 1) \in reads

(***************************************************************************)
(* Properties of the walker's progress.  The two loops are sequential      *)
(* code: an iteration that can run does run, which is weak fairness of     *)
(* Next.                                                                   *)
(***************************************************************************)
SpecProgress == Init /\ [][Next]_vars /\ WF_vars(Next)

\* an iteration that stays in its loop moves data forward by at least the
\* declared length plus 2, which is at least 6, and counts one record
Advances ==
  (pc \in {"pass1", "pass2"} /\ pc' = pc) =>
     /\ data' >= data + B(data + 1) + 2
     /\ B(data + 1) + 2 >= 6
     /\ i' = i + 1

\* C27: both loops end (the walk reaches its end for every table, length
\* and count); every iteration that does not leave its loop advances data
\* by at least declared length + 2 >= 6 bytes; at most len/6 iterations
\* advance, and with the one that leaves the loop at most len/6 + 1 records
\* are counted
C27_WalkTerminates ==
  /\ [][Advances]_vars
  /\ [](6 * i <= len + 6)
  /\ <>(pc = "done")

\* C27 as stated: the loops end, iterations advance by at least 6 bytes,
\* and at most len/6 records are counted
C27_AtMostLenOver6 ==
  /\ [][Advances]_vars
  /\ [](6 * i <= len)
  /\ <>(pc = "done")

\* a walk has ended after an advancing iteration and one that left the
\* loop on a record that does not fit: more than len/6 records are counted
C27_Witness ==
  /\ pc = "done"
  /\ Len(log) = 2
  /\ log[1].brk = "none"
  /\ log[2].brk = "truncated"
  /\ i = 2
  /\ 6 * i > len

(***************************************************************************)
(* Properties of dmi_dump                                                  *)
(***************************************************************************)
\* the offsets of the strings listed so far
Listed ==
  LET IsString(item) == item[1] = "pr_list_item" /\ item[2] = "%s"
      items == SelectSeq(out, IsString)
  IN [k \in 1..Len(items) |-> items[k][3]]

\* C28: while dmi_dump lists the strings, what it has listed is the
\* beginning of the string area, each string once and in order (the first
\* item is the string at the declared length, every further item is the
\* string behind the one listed before it); when it has returned, the
\* string behind the last one listed is the empty string that ends the
\* area
C28_DumpListsEachStringOnce ==
  LET listed   == Listed
      After(k) == IF k = 0 THEN B(1) ELSE ScanZero(listed[k]) + 1
  IN /\ pc \in {"dmi_dump_strings", "dumped"} =>
          \A k \in 1..Len(listed) : listed[k] = After(k - 1)
     /\ pc = "dumped" => B(After(Len(listed))) = 0

(***************************************************************************)
(* Properties of records that are not displayed                            *)
(***************************************************************************)
\* C29: an iteration of the second loop on a record that does not satisfy
\* the display predicate emits no handle line, no structure error, no
\* separator, no decode and no dump
C29_NotDisplayedNoOutput ==
  \A n \in 1..Len(log) :
    ~log[n].display =>
      \A k \in 1..Len(log[n].emit) :
        log[n].emit[k][1] \notin
          {"pr_handle", "<TRUNCATED>", "pr_sep", "dmi_decode", "dmi_dump"}

(***************************************************************************)
(* Properties of the vendor strings                                        *)
(***************************************************************************)
\* the offset of string number k (from 1) of the string area, bp being the
\* offset of its first string
RECURSIVE StringAt(_, _)
StringAt(bp, k) ==
  IF k = 1 THEN bp ELSE StringAt(ScanZero(bp) + 1, k - 1)

\* the string the index byte s designates in the record at o of declared
\* length L: none for 0 and for an index beyond the strings of the record
Designated(o, L, s) ==
  IF s = 0 \/ s > Len(AreaStrings(buf, o + L)) THEN NULL
  ELSE <<StringAt(o + L, s)>>

\* C30: the manufacturer and product captured in the first loop are the
\* strings designated by the bytes at 0x04 and 0x05 of the System
\* Information record, NULL for an index of 0 or beyond the record's strings
C30_VendorStringsDesignated ==
  vendor # NULL =>
    LET o == vendor[1].at
    IN /\ vendor[1].manufacturer = Designated(o, B(o + 1), B(o + 4))
       /\ vendor[1].product = Designated(o, B(o + 1), B(o + 5))

====
